---- MODULE Spec2Model ----
(***************************************************************************)
(* remu: a user-mode RV64GC emulator.  This module models the emulator    *)
(* state (registers, the buffer-per-region guest memory, the descriptor   *)
(* table, stdout, the instruction counter and the exit code) and the      *)
(* operations on it: the public Memory API (store, load, brk, mmap) and   *)
(* the interpreter step (fetch_and_execute / execute / syscall).          *)
(*                                                                         *)
(* Scale.  TLC integers are 32 bits wide, so the 64-bit machine is        *)
(* modelled with every width derived from three scale parameters exactly  *)
(* as the source derives it from 8, 8 and 12:                             *)
(*   ByteBits   bits per byte               (source: 8)                   *)
(*   IndexBits  bits of the region index    (source: 8, the top byte)     *)
(*   PageBits   PAGE_BITS                   (source: 12)                  *)
(* A u64 is eight bytes, i.e. XLEN = 8 * ByteBits bits; all arithmetic    *)
(* wraps modulo 2^XLEN.  A buffer (Vec<u8>) is kept as its length and the *)
(* map of its non-zero bytes; every other index below the length reads 0. *)
(***************************************************************************)
EXTENDS Integers, Sequences, FiniteSets, TLC

\* ------------------------------------------------------------------ scale
ByteBits == 2
IndexBits == 3
PageBits == 9
\* the length of the programs explored, counting a load-immediate
\* (addi rd, x0, imm) as 1 and every other instruction as 2
MaxFuel == 4
\* the number of Memory API calls explored in one run
MaxOps == 2

RECURSIVE Pow2(_)
Pow2(n) == IF n = 0 THEN 1 ELSE 2 * Pow2(n - 1)

Min(a, b) == IF a < b THEN a ELSE b
Max(a, b) == IF a > b THEN a ELSE b

\* number of values of a u8
BYTE == Pow2(ByteBits)
\* size_of::<u64>() bytes of ByteBits bits
XLEN == 8 * ByteBits
\* number of values of a u64; u64 arithmetic is modulo U64
U64 == Pow2(XLEN)
\* addr >> 56 and the mask 0x00FFFFFFFFFFFFFF
HEAP_SHIFT == XLEN - IndexBits
HEAP_SPAN == Pow2(HEAP_SHIFT)
\* buffers: [Vec<u8>; 256]; 255 is the stack
NBUF == Pow2(IndexBits)
STACK_INDEX == NBUF - 1
PAGE_SIZE == Pow2(PageBits)
PAGE_MASK == PAGE_SIZE - 1
STACK_START == U64 - 1

\* x | PAGE_MASK  (PAGE_MASK is a mask of the low PageBits bits)
OrPageMask(v) == v - (v % PAGE_SIZE) + PAGE_MASK

WAdd(a, b) == (a + b) % U64
WSub(a, b) == (a - b + U64) % U64

\* ------------------------------------------------------- values and bytes
\* little-endian bytes of the low w bytes of v (write_unaligned on the
\* little-endian x86-64 host the JIT targets)
ToBytes(v, w) == [i \in 0..(w - 1) |-> (v \div Pow2(ByteBits * i)) % BYTE]

RECURSIVE FromBytesUpTo(_, _)
FromBytesUpTo(bs, n) ==
    IF n = 0 THEN 0
    ELSE FromBytesUpTo(bs, n - 1) + bs[n - 1] * Pow2(ByteBits * (n - 1))

\* read_unaligned: the value whose little-endian bytes are bs (domain 0..w-1)
FromBytes(bs, w) == FromBytesUpTo(bs, w)

\* ------------------------------------------------------------ one buffer
\* Vec<u8>: len and the non-zero bytes
EmptyBuf == [len |-> 0, data |-> << >>]

BufByte(buf, k) == IF k \in DOMAIN buf.data THEN buf.data[k] ELSE 0

\* the map d restricted to the keys in S, as an explicit map
Restrict(d, S) == [j \in S |-> d[j]] @@ << >>

BufSet(buf, k, b) ==
    IF b = 0
    THEN IF k \in DOMAIN buf.data
         THEN [buf EXCEPT !.data = Restrict(buf.data, (DOMAIN buf.data) \ {k})]
         ELSE buf
    ELSE [buf EXCEPT !.data = (k :> b) @@ buf.data]

\* Vec::resize(n, 0): truncates, or appends zeros
BufResize(buf, n) ==
    IF n < buf.len
    THEN [len |-> n, data |-> Restrict(buf.data, {k \in DOMAIN buf.data : k < n})]
    ELSE [buf EXCEPT !.len = n]

\* a growth step that appends one zeroed page instead of a copy of the buffer
BufExtendOnePage(buf) == [buf EXCEPT !.len = @ + PAGE_SIZE]

\* a growth step that doubles the buffer with zeros, as resize(2 * len, 0)
BufExtendZeroed(buf) == [buf EXCEPT !.len = 2 * @]

\* Vec::extend_from_within(0..len): the buffer followed by a copy of itself
BufExtendFromWithin(buf) ==
    [len |-> 2 * buf.len,
     data |-> [j \in {k + buf.len : k \in DOMAIN buf.data} |-> buf.data[j - buf.len]]
              @@ buf.data]

\* write w bytes at index k through a raw pointer: the bytes that fall at
\* or past len leave the Vec (they are not part of the guest memory)
RECURSIVE BufWrite(_, _, _, _)
BufWrite(buf, k, bs, w) ==
    IF w = 0 THEN buf
    ELSE LET b == BufWrite(buf, k, bs, w - 1)
         IN IF k + (w - 1) < buf.len THEN BufSet(b, k + (w - 1), bs[w - 1]) ELSE b

\* ---------------------------------------------------------------- Memory
\* Memory::heap_index
heap_index(addr) == addr \div HEAP_SPAN
\* Memory::heap_addr
heap_addr(addr) == addr % HEAP_SPAN
\* Memory::heap_end
heap_end(mem, index) == (HEAP_SPAN * index + mem.buffers[index].len) % U64

\* Memory::grow_heap: "sets a heap size to new_end"; unimplemented!() for
\* the stack buffer
grow_heap(mem, new_addr) ==
    LET hi == heap_index(new_addr)
        heap_size == heap_addr(new_addr)
    IN IF hi = STACK_INDEX
       THEN [mem |-> mem, abort |-> TRUE]
       ELSE [mem |-> [mem EXCEPT !.buffers[hi] = BufResize(@, heap_size)],
             abort |-> FALSE]

RECURSIVE GrowStack(_, _)
\* the growth loop with a guard of two pages instead of one
GrowStackWide(buf, addr) ==
    LET stack_end == STACK_START - buf.len
    IN IF stack_end > addr
       THEN IF stack_end - addr > 2 * PAGE_SIZE
            THEN [fault |-> TRUE, buf |-> buf]
            ELSE GrowStack(BufExtendFromWithin(buf), addr)
       ELSE [fault |-> FALSE, buf |-> buf]

\* the while loop of Memory::store for the stack buffer
GrowStack(buf, addr) ==
    LET stack_end == STACK_START - buf.len
    IN IF stack_end > addr
       THEN IF stack_end - addr > PAGE_SIZE
            THEN [fault |-> TRUE, buf |-> buf]
            ELSE GrowStack(BufExtendFromWithin(buf), addr)
       ELSE [fault |-> FALSE, buf |-> buf]

\* Memory::store::<T>(addr, data) with size_of::<T>() = w.
\* oob: the raw write ran past the end of the stack Vec
store(mem, addr, w, data) ==
    LET hi == heap_index(addr)
        ha == heap_addr(addr)
        buffer == mem.buffers[hi]
        \* the raw write at index k of the stack buffer buf
        Raw(buf, k) ==
            [ok |-> TRUE,
             mem |-> [mem EXCEPT !.buffers[hi] = BufWrite(buf, k, ToBytes(data, w), w)],
             oob |-> k + w > buf.len]
        \* after the growth loop has ended as g
        Grown(g) ==
            IF g.fault
            THEN [ok |-> FALSE, mem |-> mem, oob |-> FALSE]
            ELSE Raw(g.buf, addr - (STACK_START - g.buf.len))
    IN IF hi = STACK_INDEX
       THEN Grown(GrowStack(buffer, addr))
       ELSE IF ha + w <= buffer.len
            THEN [ok |-> TRUE,
                  mem |-> [mem EXCEPT !.buffers[hi] = BufWrite(buffer, ha, ToBytes(data, w), w)],
                  oob |-> FALSE]
            ELSE [ok |-> FALSE, mem |-> mem, oob |-> FALSE]

\* Memory::load::<T>(addr) with size_of::<T>() = w.  A stack read is not
\* checked against the end of the Vec: the bytes read past it (oob) are
\* whatever lies behind the allocation, here the byte junk
load(mem, addr, w, junk) ==
    LET hi == heap_index(addr)
        ha == heap_addr(addr)
        buffer == mem.buffers[hi]
    IN IF hi = STACK_INDEX
       THEN LET stack_end == STACK_START - buffer.len
                k == addr - stack_end
            IN IF addr > stack_end
               THEN [ok |-> TRUE,
                     val |-> FromBytes([i \in 0..(w - 1) |->
                                 IF k + i < buffer.len THEN BufByte(buffer, k + i) ELSE junk], w),
                     oob |-> k + w > buffer.len]
               ELSE [ok |-> FALSE, val |-> 0, oob |-> FALSE]
       ELSE IF ha + w <= buffer.len
            THEN [ok |-> TRUE,
                  val |-> FromBytes([i \in 0..(w - 1) |-> BufByte(buffer, ha + i)], w),
                  oob |-> FALSE]
            ELSE [ok |-> FALSE, val |-> 0, oob |-> FALSE]

\* the result of two runs of stores, b after a
AndThen(a, b) == [ok |-> b.ok, mem |-> b.mem, oob |-> a.oob \/ b.oob]

\* for i in lo..hi { store::<u8>(i, b)? } in address order, split in halves
RECURSIVE StoreEach(_, _, _, _)
StoreEach(mem, lo, hi, b) ==
    LET mid == lo + ((hi - lo) \div 2)
        Upper(l) == IF ~l.ok THEN l ELSE AndThen(l, StoreEach(l.mem, mid, hi, b))
    IN IF hi <= lo THEN [ok |-> TRUE, mem |-> mem, oob |-> FALSE]
       ELSE IF hi = lo + 1 THEN store(mem, lo % U64, 1, b)
       ELSE Upper(StoreEach(mem, lo, mid, b))

\* for i in lo..hi { store(i, 0u8).expect(..) }, the loop of Memory::mmap,
\* computed region by region: a byte store outside the stack fails exactly
\* when its offset is at or past the length of its buffer, and on the stack
\* only the store at the lowest address can grow the stack or fail.
\* ok = FALSE: some store of the loop fails (the expect panics)
ZeroFill(mem, lo, hi) ==
    LET From(r) == Max(lo, r * HEAP_SPAN)
        To(r) == Min(hi, (r + 1) * HEAP_SPAN)
        Touched(r) == From(r) < To(r)
        g == IF Touched(STACK_INDEX)
             THEN GrowStack(mem.buffers[STACK_INDEX], From(STACK_INDEX))
             ELSE [fault |-> FALSE, buf |-> mem.buffers[STACK_INDEX]]
        stack_end == STACK_START - g.buf.len
        Zeroed(r, buf, base) ==
            [buf EXCEPT !.data = Restrict(buf.data,
                {k \in DOMAIN buf.data : ~(base + k >= From(r) /\ base + k < To(r))})]
    IN IF g.fault \/ \E r \in 0..(NBUF - 2) :
                        Touched(r) /\ To(r) - r * HEAP_SPAN > mem.buffers[r].len
       THEN [ok |-> FALSE, mem |-> mem, oob |-> FALSE]
       ELSE [ok |-> TRUE,
             mem |-> [mem EXCEPT !.buffers = [r \in 0..(NBUF - 1) |->
                        IF ~Touched(r) THEN mem.buffers[r]
                        ELSE IF r = STACK_INDEX THEN Zeroed(r, g.buf, stack_end)
                        ELSE Zeroed(r, mem.buffers[r], r * HEAP_SPAN)]],
             oob |-> Touched(STACK_INDEX) /\ To(STACK_INDEX) - stack_end > g.buf.len]

\* Memory::brk
brk(mem, new_end) ==
    LET val == new_end \div HEAP_SPAN
        Break(m) == [mem |-> m, ret |-> (HEAP_SPAN + m.buffers[1].len) % U64]
    IN Break(IF val = 1 THEN grow_heap(mem, new_end).mem ELSE mem)

\* Memory::mmap; ret = -1 is U64 - 1 once the caller casts it to u64
mmap(mem, addr, size) ==
    LET a == (HEAP_SPAN * mem.mmap_count) % U64
        end == WAdd(addr, OrPageMask(size))
        \* the fresh region, grown as g
        Fresh(g) == [mem |-> g.mem, ret |-> a, abort |-> g.abort, oob |-> FALSE]
        \* the zeroing loop has ended as z
        Zeroed(z) == [mem |-> z.mem, ret |-> addr, abort |-> ~z.ok, oob |-> z.oob]
        \* the region of addr covers end, as g
        Fixed(g) ==
            IF g.abort
            THEN [mem |-> mem, ret |-> 0, abort |-> TRUE, oob |-> FALSE]
            ELSE Zeroed(ZeroFill(g.mem, addr, end))
    IN IF mem.mmap_count > NBUF - 2
       THEN [mem |-> mem, ret |-> U64 - 1, abort |-> FALSE, oob |-> FALSE]
       ELSE IF addr = 0
       THEN Fresh(grow_heap([mem EXCEPT !.mmap_count = @ + 1], WAdd(a, OrPageMask(size))))
       ELSE Fixed(IF heap_end(mem, heap_index(addr)) < end
                  THEN grow_heap(mem, end)
                  ELSE [mem |-> mem, abort |-> FALSE])

\* Memory::write_n(s, addr, len): the first min(|s|, len) bytes of s, then
\* zeros up to len; a failing store returns early and keeps what was written
RECURSIVE write_n_from(_, _, _, _, _)
write_n_from(mem, s, addr, len, i) ==
    LET Rest(r) == IF ~r.ok THEN r
                   ELSE AndThen(r, write_n_from(r.mem, s, addr, len, i + 1))
    IN IF i >= Min(Len(s), len) THEN [ok |-> TRUE, mem |-> mem, oob |-> FALSE]
       ELSE Rest(store(mem, (addr + i) % U64, 1, s[i + 1]))

write_n(mem, s, addr, len) ==
    LET Zeros(d) == IF ~d.ok THEN d
                    ELSE AndThen(d, StoreEach(d.mem, addr + Len(s), addr + len, 0))
    IN Zeros(write_n_from(mem, s, addr, len, 0))

\* -------------------------------------------------------------- registers
RA == 1
SP == 2
A0 == 10
A1 == 11
A2 == 12
A3 == 13
A4 == 14
A5 == 15
A7 == 17
NREG == 32

\* --------------------------------------------------------- the ELF input
\* the executable: its PT_LOAD segment (p_vaddr, p_memsz and the bytes in
\* the file), e_entry, the PT_PHDR address and size, and e_phnum
ProgElf ==
    [vaddr |-> PAGE_SIZE, memsz |-> PAGE_SIZE + 8, data |-> <<1, 2, 3, 1>>,
     entry |-> PAGE_SIZE, ph_address |-> 64, ph_size |-> 56, ph_number |-> 3]
\* the embedded dynamic linker (LD_LINUX_DATA): its PT_LOAD segment and e_entry
LdElf == [vaddr |-> 0, memsz |-> PAGE_SIZE, data |-> <<2, 1>>, entry |-> 0]

\* a guest character as a byte of ByteBits bits: NUL stays 0, every other
\* character is a non-zero byte below the top value (the top value plays
\* the part of 0xff, which no UTF-8 text contains)
Ch(c) == IF c = 0 THEN 0 ELSE 1 + ((c \div 2) % (BYTE - 2))
\* b"/prog\0"
PROG_NAME == <<Ch(47), Ch(112), Ch(114), Ch(111), Ch(103), 0>>
\* b"LD_DEBUG=all\0"
LD_DEBUG == <<Ch(76), Ch(68), Ch(95), Ch(68), Ch(69), Ch(66), Ch(85), Ch(71),
              Ch(61), Ch(97), Ch(108), Ch(108), 0>>

\* Memory::map_segments for the PT_LOAD segment of elf at offset
map_segments(mem, offset, elf) ==
    LET addr_start == offset + elf.vaddr
        index == heap_index(addr_start + elf.memsz)
        g == IF heap_end(mem, index) < addr_start + OrPageMask(elf.memsz)
             THEN grow_heap(mem, addr_start + OrPageMask(elf.memsz))
             ELSE [mem |-> mem, abort |-> FALSE]
    IN write_n(g.mem, elf.data, addr_start, elf.memsz).mem

\* Memory::load_elf: the stack gets its first page, then the segments are
\* mapped; a dynamically linked executable gets the linker image in buffer 2
load_elf(dynamic) ==
    LET m0 == [buffers |-> [i \in 0..(NBUF - 1) |->
                              IF i = STACK_INDEX THEN BufResize(EmptyBuf, PAGE_SIZE)
                              ELSE EmptyBuf],
               mmap_count |-> 3]
        ld_offset == heap_end(m0, 2)
    IN IF dynamic
       THEN [mem |-> map_segments(map_segments(m0, ld_offset, LdElf), 0, ProgElf),
             entry |-> ld_offset + LdElf.entry]
       ELSE [mem |-> map_segments(m0, 0, ProgElf), entry |-> ProgElf.entry]

\* auxvec.rs: RANDOM_BYTES
RANDOM_BYTES == 16

\* the addresses Emulator::init_auxv_stack takes from x[SP], which starts
\* at STACK_START
at_random_addr == WSub(STACK_START, RANDOM_BYTES)
program_name_addr == WSub(at_random_addr, 8)
envp1_addr == WSub(program_name_addr, 16)
argc_addr == WSub(envp1_addr, 8)
argv_addr == WSub(argc_addr, 8)
envp_addr == WSub(argv_addr, 8)

\* aux_values: the Auxv keys of auxvec.rs with their values, in order
AuxValues ==
    << <<9, ProgElf.entry>>, <<3, ProgElf.ph_address>>, <<4, ProgElf.ph_size>>,
       <<5, ProgElf.ph_number>>,
       <<11, 0>>, <<12, 0>>, <<13, 0>>, <<14, 0>>, <<23, 0>>,
       <<6, PAGE_SIZE>>, <<25, at_random_addr>>, <<31, program_name_addr>>,
       <<0, 0>> >>

\* x[SP] when the j-th pair of aux_values is stored
aux_addr(j) == WSub(envp_addr, 16 * j)

\* x[SP] when init_auxv_stack returns Ok: below the pairs and the padding
init_auxv_sp == WSub(aux_addr(Len(AuxValues)), 8)

\* the writes of init_auxv_stack in program order: w > 0 is
\* store::<T>(addr, v) with size_of::<T>() = w, w = 0 is write_n(s, addr, len)
StoreOf(addr, w, v) == [w |-> w, addr |-> addr, v |-> v, s |-> << >>, len |-> 0]
WriteNOf(s, addr, len) == [w |-> 0, addr |-> addr, v |-> 0, s |-> s, len |-> len]

init_auxv_writes ==
    [i \in 1..16 |-> StoreOf(WAdd(at_random_addr, i - 1), 1, (i - 1) % BYTE)]
    \o << WriteNOf(PROG_NAME, program_name_addr, 8),
          WriteNOf(LD_DEBUG, envp1_addr, 13),
          StoreOf(argc_addr, 4, 1),
          StoreOf(argv_addr, 8, program_name_addr) >>
    \o [i \in 1..(2 * Len(AuxValues)) |->
          IF i % 2 = 1
          THEN StoreOf(aux_addr((i + 1) \div 2), 8, AuxValues[(i + 1) \div 2][1])
          ELSE StoreOf(WAdd(aux_addr(i \div 2), 8), 8, AuxValues[i \div 2][2])]

\* the writes from the i-th on; each is followed by `?`
RECURSIVE init_auxv_from(_, _, _)
init_auxv_from(mem, ws, i) ==
    IF i > Len(ws) THEN [ok |-> TRUE, mem |-> mem]
    ELSE LET r == IF ws[i].w = 0
                  THEN write_n(mem, ws[i].s, ws[i].addr, ws[i].len)
                  ELSE store(mem, ws[i].addr, ws[i].w, ws[i].v)
         IN IF ~r.ok THEN [ok |-> FALSE, mem |-> r.mem]
            ELSE init_auxv_from(r.mem, ws, i + 1)

\* Emulator::init_auxv_stack: Ok or Err, and the memory it leaves
init_auxv_stack(mem) == init_auxv_from(mem, init_auxv_writes, 1)

\* ------------------------------------------------------------ arithmetic
\* width in bits of u32/i32
W32 == 4 * ByteBits

\* v as uN (truncation), as iN read as an integer, and an integer as u64
Trunc(v, bits) == v % Pow2(bits)
Signed(v, bits) ==
    LET t == v % Pow2(bits) IN IF t >= Pow2(bits - 1) THEN t - Pow2(bits) ELSE t
FromSigned(i) == ((i % U64) + U64) % U64
\* (v as iN) as u64: sign extension
SExt(v, bits) == FromSigned(Signed(v, bits))
MinSigned(bits) == 0 - Pow2(bits - 1)

RECURSIVE BitAnd(_, _)
BitAnd(a, b) ==
    IF a = 0 \/ b = 0 THEN 0
    ELSE (a % 2) * (b % 2) + 2 * BitAnd(a \div 2, b \div 2)
RECURSIVE BitOr(_, _)
BitOr(a, b) ==
    IF a = 0 THEN b ELSE IF b = 0 THEN a
    ELSE Max(a % 2, b % 2) + 2 * BitOr(a \div 2, b \div 2)
RECURSIVE BitXor(_, _)
BitXor(a, b) ==
    IF a = 0 THEN b ELSE IF b = 0 THEN a
    ELSE ((a + b) % 2) + 2 * BitXor(a \div 2, b \div 2)

\* shifts of a value of the given width
Shl(v, amt, bits) == (v % Pow2(bits - amt)) * Pow2(amt)
Shr(v, amt, bits) == Trunc(v, bits) \div Pow2(amt)
\* arithmetic shift right of an iN, as an integer
Sar(v, amt, bits) ==
    LET i == Signed(v, bits)
    IN IF i >= 0 THEN i \div Pow2(amt) ELSE 0 - ((Pow2(amt) - 1 - i) \div Pow2(amt))

\* wrapping_mul modulo 2^bits, by shift and add
RECURSIVE MulMod(_, _, _)
MulMod(a, b, bits) ==
    IF b = 0 THEN 0
    ELSE ((b % 2) * a + 2 * MulMod(a, b \div 2, bits)) % Pow2(bits)

\* ((a as u128) * (b as u128)) >> 64, from the half-word products
MulHigh(a, b) ==
    LET H == Pow2(XLEN \div 2)
        a1 == a \div H   a0 == a % H
        b1 == b \div H   b0 == b % H
        mid == a1 * b0 + ((a0 * b0) \div H)
        mid2 == a0 * b1 + (mid % H)
    IN a1 * b1 + (mid \div H) + (mid2 \div H)

\* Rust's / and % on signed integers truncate towards zero
Abs(i) == IF i < 0 THEN 0 - i ELSE i
TruncDiv(a, b) ==
    IF (a < 0) = (b < 0) THEN Abs(a) \div Abs(b) ELSE 0 - (Abs(a) \div Abs(b))
TruncRem(a, b) == a - b * TruncDiv(a, b)

\* f32 -> f64 keeps every bit of the f32 at the top of the f64; f64 -> f32
\* drops the low half (the bits of an f64 are kept as an integer)
F32ToF64(b) == Trunc(b, W32) * Pow2(W32)
F64ToF32(b) == b \div Pow2(W32)

\* ------------------------------------------------- strings and descriptors
\* Option::None for exit_code; Some(c) is c
None == 0 - 1

\* U+FFFD, the character from_utf8_lossy puts in place of a byte that is
\* not UTF-8 (here the top byte value)
REPL == BYTE
from_utf8_lossy(bs) == [i \in 1..Len(bs) |-> IF bs[i] = BYTE - 1 THEN REPL ELSE bs[i]]

\* Memory::read_string_n: the bytes up to the first NUL, at most len of them;
\* ovf: addr += 1 wrapped
RECURSIVE read_string_n(_, _, _, _)
read_string_n(mem, addr, len, junk) ==
    LET Cons(l, t) == [ok |-> t.ok, s |-> <<l.val>> \o t.s, oob |-> l.oob \/ t.oob,
                       ovf |-> t.ovf \/ addr = U64 - 1]
        Read(l) ==
            IF ~l.ok THEN [ok |-> FALSE, s |-> << >>, oob |-> FALSE, ovf |-> FALSE]
            ELSE IF l.val = 0
            THEN [ok |-> TRUE, s |-> << >>, oob |-> l.oob, ovf |-> addr = U64 - 1]
            ELSE Cons(l, read_string_n(mem, (addr + 1) % U64, len - 1, junk))
    IN IF len = 0 THEN [ok |-> TRUE, s |-> << >>, oob |-> FALSE, ovf |-> FALSE]
       ELSE Read(load(mem, addr, 1, junk))

\* the text of a read_string_n result
Str(cs) == [i \in 1..Len(cs) |-> Ch(cs[i])]
\* "/lib/tls/libc.so.6", "/lib/tls/libstdc++.so.6", "/lib/tls/libm.so.6",
\* "/lib/tls/libgcc_s.so.1", "/proc/self/exe"
LIBC_NAME == Str(<<47, 108, 105, 98, 47, 116, 108, 115, 47, 108, 105, 98, 99, 46, 115, 111,
                   46, 54>>)
LIBCPP_NAME == Str(<<47, 108, 105, 98, 47, 116, 108, 115, 47, 108, 105, 98, 115, 116, 100,
                     99, 43, 43, 46, 115, 111, 46, 54>>)
LIBM_NAME == Str(<<47, 108, 105, 98, 47, 116, 108, 115, 47, 108, 105, 98, 109, 46, 115, 111,
                   46, 54>>)
LIBGCCS_NAME == Str(<<47, 108, 105, 98, 47, 116, 108, 115, 47, 108, 105, 98, 103, 99, 99,
                      95, 115, 46, 115, 111, 46, 49>>)
PROC_SELF_EXE == Str(<<47, 112, 114, 111, 99, 47, 115, 101, 108, 102, 47, 101, 120, 101>>)

\* files.rs: the embedded libraries (a few bytes stand for each image) and
\* their descriptor numbers
LIBC_DATA == <<1, 2, 1, 3, 2, 1>>
LIBCPP_DATA == <<2, 2, 1>>
LIBM_DATA == <<3, 1>>
LIBGCCS_DATA == <<1, 3, 3, 1>>
LIBC_FILE_DESCRIPTOR == 10
LIBCPP_FILE_DESCRIPTOR == 11
LIBM_FILE_DESCRIPTOR == 12
LIBGCCS_FILE_DESCRIPTOR == 13

\* FileDescriptor { offset, data }
FileDescriptor(offset, data) == [offset |-> offset, data |-> data]
\* HashMap::insert
FdInsert(fds, fd, d) == (fd :> d) @@ fds
\* a remove that leaves the descriptor in the table
FdRemoveNothing(fds, fd) == fds
\* HashMap::remove
FdRemove(fds, fd) == Restrict(fds, (DOMAIN fds) \ {fd})

\* Memory::read_file: copies data[offset .. min(offset + count, len)] to buf;
\* the slice panics when offset is past the end of the data
read_file(mem, desc, buf, count) ==
    LET o == desc.offset
        max == Min(o + count, Len(desc.data))
        Copied(data, w) ==
            [res |-> IF w.ok THEN "Ok" ELSE "Segfault", mem |-> w.mem,
             ret |-> Len(data), oob |-> w.oob]
        Copy(data) == Copied(data, write_n(mem, data, buf, Len(data)))
    IN IF o > max
       THEN [res |-> "Abort", mem |-> mem, ret |-> 0, oob |-> FALSE]
       ELSE Copy(SubSeq(desc.data, o + 1, max))

\* Memory::mmap_file: maps len bytes at addr and copies data[offset ..
\* offset + len] there; the slice panics when it runs past the data
mmap_file(mem, desc, addr, offset, len) ==
    LET data == SubSeq(desc.data, offset + 1, offset + len)
        Filled(m, w) ==
            [res |-> IF w.ok THEN "Ok" ELSE "Segfault", mem |-> w.mem,
             ret |-> m.ret, oob |-> m.oob \/ w.oob]
        Fill(m) ==
            IF m.abort
            THEN [res |-> "Abort", mem |-> mem, ret |-> 0, oob |-> FALSE]
            ELSE IF m.ret >= U64 \div 2
            THEN [res |-> "Ok", mem |-> m.mem, ret |-> m.ret, oob |-> m.oob]
            ELSE Filled(m, write_n(m.mem, data, m.ret, len))
    IN IF offset + len > Len(desc.data)
       THEN [res |-> "Abort", mem |-> mem, ret |-> 0, oob |-> FALSE]
       ELSE Fill(mmap(mem, addr, len))

\* ------------------------------------------------------------- syscalls
\* enum Syscall
Syscall ==
    [Ioctl |-> 29, Faccessat |-> 48, Openat |-> 56, Close |-> 57, Lseek |-> 62,
     Read |-> 63, Write |-> 64, Writev |-> 66, Readlinkat |-> 78, Newfstatat |-> 79,
     Exit |-> 93, ExitGroup |-> 94, SetTidAddress |-> 96, Futex |-> 98,
     SetRobustList |-> 99, ClockGettime |-> 113, SchedYield |-> 124, Tgkill |-> 131,
     RtSigaction |-> 134, RtSigprocmask |-> 135, Getpid |-> 172, Gettid |-> 178,
     Brk |-> 214, Munmap |-> 215, Mmap |-> 222, Mprotect |-> 226, Prlimit64 |-> 261,
     Getrandom |-> 278]
SyscallIds == {Syscall[k] : k \in DOMAIN Syscall}

\* -1i64 as u64
MINUS1 == U64 - 1

\* the outcome of (part of) a step: the state reached, Ok / Segfault /
\* Abort (a panic), whether a raw access left the stack Vec (oob) and
\* whether an unchecked + or << overflowed (ovf)
Outcome(st, res, oob, ovf) == [st |-> st, res |-> res, oob |-> oob, ovf |-> ovf]
Done(st) == Outcome(st, "Ok", FALSE, FALSE)
SetX(st, rd, v) == [st EXCEPT !.x[rd] = v]

\* the loop of Syscall::Writev over the iovec array
RECURSIVE writev_loop(_, _, _, _, _)
writev_loop(st, iovecs, iovcnt, i, junk) ==
    LET Looped(p, l, r, t) ==
            Outcome(t.st, t.res, p.oob \/ l.oob \/ r.oob \/ t.oob,
                    r.ovf \/ t.ovf \/ iovecs + 8 + i * 16 >= U64)
        Written(p, l, r) ==
            IF ~r.ok THEN Outcome(st, "Segfault", FALSE, FALSE)
            ELSE Looped(p, l, r,
                        writev_loop([st EXCEPT !.stdout = @ \o from_utf8_lossy(r.s)],
                                    iovecs, iovcnt, i + 1, junk))
        Vec(p, l) ==
            IF ~p.ok \/ ~l.ok THEN Outcome(st, "Segfault", FALSE, FALSE)
            ELSE Written(p, l, read_string_n(st.mem, p.val, l.val, junk))
    IN IF i >= iovcnt THEN Done(st)
       ELSE Vec(load(st.mem, (iovecs + i * 16) % U64, 8, junk),
                load(st.mem, (iovecs + 8 + i * 16) % U64, 8, junk))

\* Syscall::Openat
sys_openat(st, junk) ==
    LET Open(fd, data) ==
            SetX([st EXCEPT !.file_descriptors = FdInsert(@, fd, FileDescriptor(0, data))],
                 A0, fd)
        Opened(r, filename) ==
            Outcome(IF filename = LIBC_NAME THEN Open(LIBC_FILE_DESCRIPTOR, LIBC_DATA)
                    ELSE IF filename = LIBCPP_NAME THEN Open(LIBCPP_FILE_DESCRIPTOR, LIBCPP_DATA)
                    ELSE IF filename = LIBM_NAME THEN Open(LIBM_FILE_DESCRIPTOR, LIBM_DATA)
                    ELSE IF filename = LIBGCCS_NAME
                    THEN Open(LIBGCCS_FILE_DESCRIPTOR, LIBGCCS_DATA)
                    ELSE SetX(st, A0, MINUS1),
                    "Ok", r.oob, r.ovf)
        Named(r) == IF ~r.ok THEN Outcome(st, "Segfault", FALSE, FALSE)
                    ELSE Opened(r, from_utf8_lossy(r.s))
    IN Named(read_string_n(st.mem, st.x[A1], 512, junk))

\* Syscall::Lseek (a0 is left as it is when the seek succeeds)
sys_lseek(st) ==
    LET fd == st.x[A0]
        offset == st.x[A1]
        whence == st.x[A2]
        Seek(to) == [st EXCEPT !.file_descriptors[fd].offset = to]
    IN IF fd \notin DOMAIN st.file_descriptors THEN SetX(st, A0, MINUS1)
       ELSE IF whence = 0 THEN Seek(offset)
       ELSE IF whence = 1 THEN Seek(WAdd(st.file_descriptors[fd].offset, offset))
       ELSE IF whence = 2 THEN Seek(WAdd(Len(st.file_descriptors[fd].data), offset))
       ELSE SetX(st, A0, MINUS1)

\* Syscall::Read
sys_read(st) ==
    LET fd == st.x[A0]
        Read(r) ==
            IF r.res = "Ok"
            THEN Outcome(SetX([st EXCEPT !.mem = r.mem], A0, r.ret), "Ok", r.oob, FALSE)
            ELSE Outcome([st EXCEPT !.mem = r.mem], r.res, r.oob, FALSE)
    IN IF fd \notin DOMAIN st.file_descriptors THEN Done(SetX(st, A0, MINUS1))
       ELSE Read(read_file(st.mem, st.file_descriptors[fd], st.x[A1], st.x[A2]))

\* Syscall::Write
sys_write(st, junk) ==
    LET Wrote(r) ==
            IF ~r.ok THEN Outcome(st, "Segfault", FALSE, FALSE)
            ELSE Outcome(SetX([st EXCEPT !.stdout = @ \o from_utf8_lossy(r.s)], A0, st.x[A2]),
                         "Ok", r.oob, r.ovf)
    IN IF st.x[A0] > 2 THEN Outcome(st, "Abort", FALSE, FALSE)
       ELSE Wrote(read_string_n(st.mem, st.x[A1], st.x[A2], junk))

\* Syscall::Readlinkat
sys_readlinkat(st, junk) ==
    LET Linked(r, w) ==
            IF ~w.ok
            THEN Outcome([st EXCEPT !.mem = w.mem], "Segfault", r.oob \/ w.oob, r.ovf)
            ELSE Outcome(SetX([st EXCEPT !.mem = w.mem], A0, 5), "Ok", r.oob \/ w.oob, r.ovf)
        Named(r) ==
            IF ~r.ok THEN Outcome(st, "Segfault", FALSE, FALSE)
            ELSE IF from_utf8_lossy(r.s) # PROC_SELF_EXE
            THEN Outcome(SetX(st, A0, MINUS1), "Ok", r.oob, r.ovf)
            ELSE Linked(r, write_n(st.mem, PROG_NAME, st.x[A2], st.x[A3]))
    IN Named(read_string_n(st.mem, st.x[A1], 512, junk))

\* Syscall::Futex
sys_futex(st) ==
    LET Woke(w) ==
            IF ~w.ok THEN Outcome(st, "Segfault", FALSE, FALSE)
            ELSE Outcome(SetX([st EXCEPT !.mem = w.mem], A0, 0), "Ok", w.oob, FALSE)
    IN IF st.x[A1] # 128 THEN Done(SetX(st, A0, 0))
       ELSE Woke(store(st.mem, st.x[A0], 8, 0))

\* Syscall::Brk
sys_brk(st) ==
    LET Set(b) == SetX([st EXCEPT !.mem = b.mem], A0, b.ret)
    IN Set(brk(brk(st.mem, 0).mem, st.x[A0]))

\* Syscall::Mmap
sys_mmap(st) ==
    LET addr == st.x[A0]
        len == st.x[A1]
        flags == st.x[A3]
        fd == st.x[A4]
        offset == st.x[A5]
        Anon(m) == Outcome(SetX([st EXCEPT !.mem = m.mem], A0, m.ret),
                           IF m.abort THEN "Abort" ELSE "Ok", m.oob, FALSE)
        File(mf) ==
            IF mf.res = "Ok"
            THEN Outcome(SetX([st EXCEPT !.mem = mf.mem], A0, mf.ret), "Ok", mf.oob, FALSE)
            ELSE Outcome([st EXCEPT !.mem = mf.mem], mf.res, mf.oob, FALSE)
    IN IF fd = MINUS1
       THEN Anon(mmap(st.mem, IF BitAnd(flags, 16) # 0 THEN addr ELSE 0, len))
       ELSE IF fd \in DOMAIN st.file_descriptors
       THEN File(mmap_file(st.mem, st.file_descriptors[fd], addr, offset, len))
       ELSE Done(SetX(st, A0, MINUS1))

\* Syscall::Getrandom
sys_getrandom(st) ==
    LET buf == st.x[A0]
        buflen == st.x[A1]
        Filled(w) ==
            IF ~w.ok
            THEN Outcome([st EXCEPT !.mem = w.mem], "Segfault", w.oob, buf + buflen >= U64)
            ELSE Outcome(SetX([st EXCEPT !.mem = w.mem], A0, buflen), "Ok", w.oob,
                         buf + buflen >= U64)
    IN Filled(StoreEach(st.mem, buf, (buf + buflen) % U64, BYTE - 1))

\* Syscall::Newfstatat
sys_newfstatat(st, junk) ==
    LET Named(r) == IF ~r.ok THEN Outcome(st, "Segfault", FALSE, FALSE)
                    ELSE Outcome(SetX(st, A0, 0), "Ok", r.oob, r.ovf)
    IN Named(read_string_n(st.mem, st.x[A1], 512, junk))

\* Emulator::syscall
syscall(st, junk) ==
    LET id == st.x[A7]
        arg == st.x[A0]
    IN IF id \notin SyscallIds THEN Outcome(st, "Abort", FALSE, FALSE)
       ELSE IF id \in {Syscall.Ioctl, Syscall.SetTidAddress, Syscall.SetRobustList,
                       Syscall.RtSigaction, Syscall.RtSigprocmask, Syscall.Getpid,
                       Syscall.Gettid, Syscall.Munmap, Syscall.Mprotect,
                       Syscall.Prlimit64, Syscall.SchedYield}
       THEN Done(SetX(st, A0, 0))
       ELSE IF id \in {Syscall.Faccessat, Syscall.Tgkill} THEN Done(SetX(st, A0, MINUS1))
       ELSE IF id = Syscall.Openat THEN sys_openat(st, junk)
       ELSE IF id = Syscall.Close
       THEN IF arg \in DOMAIN st.file_descriptors
            THEN Done(SetX([st EXCEPT !.file_descriptors = FdRemove(@, arg)], A0, 0))
            ELSE Done(SetX(st, A0, MINUS1))
       ELSE IF id = Syscall.Lseek THEN Done(sys_lseek(st))
       ELSE IF id = Syscall.Read THEN sys_read(st)
       ELSE IF id = Syscall.Write THEN sys_write(st, junk)
       ELSE IF id = Syscall.Writev
       THEN IF arg > 2 THEN Outcome(st, "Abort", FALSE, FALSE)
            ELSE writev_loop(st, st.x[A1], st.x[A2], 0, junk)
       ELSE IF id = Syscall.Readlinkat THEN sys_readlinkat(st, junk)
       ELSE IF id \in {Syscall.Exit, Syscall.ExitGroup}
       THEN Done([st EXCEPT !.exit_code = arg])
       ELSE IF id = Syscall.Futex THEN sys_futex(st)
       ELSE IF id = Syscall.ClockGettime THEN Done(st)
       ELSE IF id = Syscall.Brk THEN Done(sys_brk(st))
       ELSE IF id = Syscall.Mmap THEN sys_mmap(st)
       ELSE IF id = Syscall.Getrandom THEN sys_getrandom(st)
       ELSE sys_newfstatat(st, junk)

\* ------------------------------------------------------------- profiler
\* profiler.rs: CACHE_SIZE, and the SIZE of Profiler::branch_predictor
CACHE_SIZE == 1280
BRANCH_CACHE_SIZE == 100

\* Cache::new: every slot is zeroed, (0, false)
CacheNew == [data |-> [i \in 0..(BRANCH_CACHE_SIZE - 1) |-> <<0, FALSE>>], index |-> 0]

\* Cache::put
CachePut(c, key, value) ==
    [data |-> [c.data EXCEPT ![c.index] = <<key, value>>],
     index |-> (c.index + 1) % BRANCH_CACHE_SIZE]

\* the first slot of the cache that holds key, or -1
CacheFind(c, key) ==
    LET hits == {i \in 0..(BRANCH_CACHE_SIZE - 1) : c.data[i][1] = key}
    IN IF hits = {} THEN 0 - 1 ELSE CHOOSE i \in hits : \A j \in hits : i <= j

\* Cache::update: the cache afterwards and the Option it returns, << >> for
\* None and <<v>> for Some(v)
CacheUpdate(c, key, new_value) ==
    LET At(i) ==
            IF i < 0 THEN [cache |-> CachePut(c, key, new_value), ret |-> << >>]
            ELSE IF c.data[i][2] # new_value
            THEN [cache |-> [c EXCEPT !.data[i] = <<key, new_value>>],
                  ret |-> <<new_value>>]
            ELSE [cache |-> c, ret |-> << >>]
    IN At(CacheFind(c, key))

\* Profiler::new, without the field running
ProfilerNew ==
    [x_pipeline_delay |-> [r \in 0..(NREG - 1) |-> 0],
     f_pipeline_delay |-> [r \in 0..(NREG - 1) |-> 0],
     cycle_count |-> 0, cache_hit_count |-> 0, cache_miss_count |-> 0,
     mispredicted_branch_count |-> 0, predicted_branch_count |-> 0,
     branch_predictor |-> CacheNew, last_mem_access |-> 0]

\* Profiler::is_counted; ignore_dynamic_linker_instructions is always true
\* and the dynamic linker is loaded in buffer 2
is_counted(running_, at) == running_ /\ heap_index(at) # 2

\* Profiler::tick
tick(p, counted) == IF counted THEN [p EXCEPT !.cycle_count = @ + 1] ELSE p

\* Profiler::pipeline_stall_x, pipeline_stall_xx and pipeline_stall_xf
pipeline_stall_x(p, counted, reg1) ==
    IF counted THEN [p EXCEPT !.cycle_count = Max(@, p.x_pipeline_delay[reg1])] ELSE p
pipeline_stall_xx(p, counted, reg1, reg2) ==
    IF counted
    THEN [p EXCEPT !.cycle_count =
                      Max(Max(@, p.x_pipeline_delay[reg1]), p.x_pipeline_delay[reg2])]
    ELSE p
pipeline_stall_xf(p, counted, reg1, reg2) ==
    IF counted
    THEN [p EXCEPT !.cycle_count =
                      Max(Max(@, p.x_pipeline_delay[reg1]), p.f_pipeline_delay[reg2])]
    ELSE p

\* what branch_taken and branch_not_taken do with the Option of update
BranchCounted(p, u, mispredicted) ==
    IF mispredicted
    THEN [p EXCEPT !.branch_predictor = u.cache,
                   !.mispredicted_branch_count = @ + 1,
                   !.cycle_count = @ + 4]
    ELSE [p EXCEPT !.branch_predictor = u.cache, !.predicted_branch_count = @ + 1]

\* Profiler::branch_taken: None | Some(false) is a misprediction
branch_taken(p, counted, at) ==
    LET K(u) == BranchCounted(p, u, u.ret # <<TRUE>>)
    IN IF counted THEN K(CacheUpdate(p.branch_predictor, at, TRUE)) ELSE p

\* Profiler::branch_not_taken: Some(true) is a misprediction
branch_not_taken(p, counted, at) ==
    LET K(u) == BranchCounted(p, u, u.ret = <<TRUE>>)
    IN IF counted THEN K(CacheUpdate(p.branch_predictor, at, FALSE)) ELSE p

\* Profiler::add_delay_x: not guarded by is_counted
add_delay_x(p, reg, amount) ==
    [p EXCEPT !.x_pipeline_delay[reg] = p.cycle_count + amount]

\* Profiler::add_load_delay_x and add_load_delay_f: 3 cycles on a hit, 200
\* on a miss
LoadDelay(p, counted, addr, forF, rd) ==
    LET hit == (IF p.last_mem_access >= addr THEN p.last_mem_access - addr
                ELSE addr - p.last_mem_access) < CACHE_SIZE
        until == p.cycle_count + (IF hit THEN 3 ELSE 200)
        q == IF forF THEN [p EXCEPT !.f_pipeline_delay[rd] = until]
             ELSE [p EXCEPT !.x_pipeline_delay[rd] = until]
    IN IF ~counted THEN p
       ELSE IF hit THEN [q EXCEPT !.cache_hit_count = @ + 1, !.last_mem_access = addr]
       ELSE [q EXCEPT !.cache_miss_count = @ + 1, !.last_mem_access = addr]

\* u64::ilog2 and the macro div_cycle_count!
RECURSIVE ilog2(_)
ilog2(n) == IF n <= 1 THEN 0 ELSE 1 + ilog2(n \div 2)
div_cycle_count(dividend, divisor) ==
    2 + Max(0, ilog2(Max(dividend, 1)) - ilog2(Max(divisor, 1)))

\* iN::abs in a release build: the most negative value stays as it is
AbsWrapping(i, bits) == IF i = MinSigned(bits) THEN i ELSE Abs(i)

\* whether a conditional branch is taken
BranchTaken(x, inst) ==
    LET a == x[inst.rs1]
        b == x[inst.rs2]
    IN CASE inst.op = "Beq" -> a = b
         [] inst.op = "Bne" -> a # b
         [] inst.op = "Blt" -> Signed(a, XLEN) < Signed(b, XLEN)
         [] inst.op = "Bge" -> Signed(a, XLEN) >= Signed(b, XLEN)
         [] inst.op = "Bltu" -> a < b
         [] inst.op = "Bgeu" -> a >= b

\* the amount an arm of Emulator::execute gives add_delay_x
DelayAmount(x, inst) ==
    LET a == x[inst.rs1]
        b == x[inst.rs2]
    IN CASE inst.op \in {"Mul", "Mulhu"} -> 3
         [] inst.op = "Div" ->
              div_cycle_count(AbsWrapping(Signed(a, XLEN), XLEN),
                              AbsWrapping(Signed(b, XLEN), XLEN))
         [] inst.op \in {"Divw", "Remw"} ->
              div_cycle_count(AbsWrapping(Signed(a, W32), W32),
                              AbsWrapping(Signed(b, W32), W32))
         [] inst.op \in {"Divu", "Remu"} -> div_cycle_count(a, b)
         [] inst.op \in {"Divuw", "Remuw"} -> div_cycle_count(Trunc(a, W32), Trunc(b, W32))

\* the calls of the profiler an arm of Emulator::execute makes, all of them
\* before the arm changes the emulator: the profiler afterwards
Profiled(st, inst) ==
    LET op == inst.op
        p == st.profiler
        c == is_counted(st.running, st.pc)
        addr == WAdd(st.x[inst.rs1], FromSigned(inst.imm))
    IN CASE op = "Ecall" -> pipeline_stall_x(p, c, A7)
         [] op \in {"Ld", "Lw", "Lwu", "Lhu", "Lb", "Lbu"} ->
              LoadDelay(pipeline_stall_x(p, c, inst.rs1), c, addr, FALSE, inst.rd)
         [] op \in {"Fld", "Flw"} ->
              LoadDelay(pipeline_stall_x(p, c, inst.rs1), c, addr, TRUE, inst.rd)
         [] op \in {"Fsd", "Fsw"} -> pipeline_stall_xf(p, c, inst.rs1, inst.rs2)
         [] op \in {"Addi", "Addiw", "Andi", "Slli", "Slliw", "Srli", "Srliw", "Srai",
                    "Sraiw", "Ori", "Xori", "Slti", "Sltiu", "Jalr"} ->
              pipeline_stall_x(p, c, inst.rs1)
         [] op \in {"Beq", "Bne", "Blt", "Bltu", "Bge", "Bgeu"} ->
              IF BranchTaken(st.x, inst)
              THEN branch_taken(pipeline_stall_xx(p, c, inst.rs1, inst.rs2), c, st.pc)
              ELSE branch_not_taken(pipeline_stall_xx(p, c, inst.rs1, inst.rs2), c, st.pc)
         [] op \in {"Mul", "Mulhu", "Div", "Divw", "Divu", "Divuw", "Remw", "Remu",
                    "Remuw"} ->
              add_delay_x(pipeline_stall_xx(p, c, inst.rs1, inst.rs2), inst.rd,
                          DelayAmount(st.x, inst))
         [] op \in {"Sd", "Sw", "Sh", "Sb", "Add", "Addw", "And", "Sub", "Subw", "Sll",
                    "Sllw", "Srl", "Srlw", "Sra", "Sraw", "Or", "Xor", "Slt", "Sltu"} ->
              pipeline_stall_xx(p, c, inst.rs1, inst.rs2)
         [] OTHER -> p

\* ------------------------------------------------------------- execute
\* a decoded instruction (enum Inst): the variant and its fields; imm is
\* the immediate, offset or shamt as a signed integer
Inst(op, rd, rs1, rs2, imm) == [op |-> op, rd |-> rd, rs1 |-> rs1, rs2 |-> rs2, imm |-> imm]

\* x[0] keeps a value written to it
KeepX0(x) == x

\* "make sure x0 is zero"
ZeroX0(x) == [x EXCEPT ![0] = 0]

\* the end of execute without the instruction count
RetireUncounted(st, incr) ==
    [st EXCEPT !.pc = WAdd(@, incr),
               !.profiler = tick(@, is_counted(st.running, WAdd(st.pc, incr))),
               !.x = ZeroX0(@)]

\* the end of Emulator::execute, after the match
Retire(st, incr) ==
    [st EXCEPT !.pc = WAdd(@, incr), !.inst_counter = @ + 1,
               !.profiler = tick(@, is_counted(st.running, WAdd(st.pc, incr))),
               !.x = ZeroX0(@)]

Fault(st) == Outcome(st, "Segfault", FALSE, FALSE)
Panic(st) == Outcome(st, "Abort", FALSE, FALSE)

\* loads, stores, branches and atomics of the match in Emulator::execute
ExecLoad(st, rd, addr, w, sx, junk) ==
    LET Loaded(l) ==
            IF ~l.ok THEN Fault(st)
            ELSE Outcome(SetX(st, rd, IF sx THEN SExt(l.val, w * ByteBits) ELSE l.val),
                         "Ok", l.oob, FALSE)
    IN Loaded(load(st.mem, addr, w, junk))

ExecLoadF(st, rd, addr, w, junk) ==
    LET Loaded(l) ==
            IF ~l.ok THEN Fault(st)
            ELSE Outcome([st EXCEPT !.f[rd] = IF w = 4 THEN F32ToF64(l.val) ELSE l.val],
                         "Ok", l.oob, FALSE)
    IN Loaded(load(st.mem, addr, w, junk))

ExecStore(st, addr, w, v) ==
    LET Stored(r) == IF ~r.ok THEN Fault(st)
                     ELSE Outcome([st EXCEPT !.mem = r.mem], "Ok", r.oob, FALSE)
    IN Stored(store(st.mem, addr, w, v))

ExecBranch(st, taken, offset, incr) ==
    Done(IF taken THEN [st EXCEPT !.pc = WSub(WAdd(@, FromSigned(offset)), incr)] ELSE st)

\* x[rd] = load(x[rs1])?; store(x[rs1], F(x[rs2], x[rd]))?  with the
\* registers read again after rd is written
ExecAmo(st, op, rd, rs1, rs2, w, junk) ==
    LET F(a, b) == IF op = "swap" THEN a
                   ELSE IF op = "add" THEN (a + b) % Pow2(w * ByteBits)
                   ELSE IF op = "or" THEN BitOr(a, b)
                   ELSE Max(a, b)
        Stored(l, r) == Outcome(r.st, r.res, l.oob \/ r.oob, FALSE)
        Store(l, st1) ==
            Stored(l, ExecStore(st1, st1.x[rs1], w,
                                F(Trunc(st1.x[rs2], w * ByteBits),
                                  Trunc(st1.x[rd], w * ByteBits))))
        Loaded(l) ==
            IF ~l.ok THEN Fault(st)
            ELSE Store(l, SetX(st, rd, IF w = 4 THEN SExt(l.val, W32) ELSE l.val))
    IN Loaded(load(st.mem, st.x[rs1], w, junk))

\* the signed divisions and remainders: / and % panic on a zero divisor
\* and on MIN / -1; abs() in div_cycle_count overflows on MIN
ExecDiv(st, rd, a, b, bits, rem) ==
    IF b = 0 \/ (a = MinSigned(bits) /\ b = 0 - 1) THEN Panic(st)
    ELSE Outcome(SetX(st, rd, FromSigned(IF rem THEN TruncRem(a, b) ELSE TruncDiv(a, b))),
                 "Ok", FALSE, a = MinSigned(bits) \/ b = MinSigned(bits))

\* the match of Emulator::execute
ExecInst(st, inst, incr, junk) ==
    LET op == inst.op
        rd == inst.rd
        rs1 == inst.rs1
        rs2 == inst.rs2
        imm == inst.imm
        immu == FromSigned(inst.imm)
        x == st.x
        addr == WAdd(x[rs1], immu)
        s1 == Signed(x[rs1], XLEN)
        s2 == Signed(x[rs2], XLEN)
        amt2 == Trunc(x[rs2], W32)
        Wr(v) == Done(SetX(st, rd, v))
        WrOvf(v, ovf) == Outcome(SetX(st, rd, v), "Ok", FALSE, ovf)
        link == SetX(st, rd, WAdd(st.pc, incr))
    IN CASE op \in {"Fence", "Ebreak", "Error"} -> Done(st)
         [] op = "Ecall" -> syscall(st, junk)
         [] op = "Lui" -> Wr(immu)
         [] op = "Ld" -> ExecLoad(st, rd, addr, 8, FALSE, junk)
         [] op = "Fld" -> ExecLoadF(st, rd, addr, 8, junk)
         [] op = "Flw" -> ExecLoadF(st, rd, addr, 4, junk)
         [] op = "Lw" -> ExecLoad(st, rd, addr, 4, TRUE, junk)
         [] op = "Lwu" -> ExecLoad(st, rd, addr, 4, FALSE, junk)
         [] op = "Lhu" -> ExecLoad(st, rd, addr, 2, FALSE, junk)
         [] op = "Lb" -> ExecLoad(st, rd, addr, 1, TRUE, junk)
         [] op = "Lbu" -> ExecLoad(st, rd, addr, 1, FALSE, junk)
         [] op = "Sd" -> ExecStore(st, addr, 8, x[rs2])
         [] op = "Fsd" -> ExecStore(st, addr, 8, st.f[rs2])
         [] op = "Fsw" -> ExecStore(st, addr, 4, F64ToF32(st.f[rs2]))
         [] op = "Sw" -> ExecStore(st, addr, 4, x[rs2])
         [] op = "Sh" -> ExecStore(st, addr, 2, x[rs2])
         [] op = "Sb" -> ExecStore(st, addr, 1, x[rs2])
         [] op = "Add" -> Wr(WAdd(x[rs1], x[rs2]))
         [] op = "Addw" -> Wr(SExt(x[rs1] + x[rs2], W32))
         [] op = "Addi" -> Wr(WAdd(x[rs1], immu))
         [] op = "Addiw" -> Wr(SExt(x[rs1] + immu, W32))
         [] op = "And" -> Wr(BitAnd(x[rs1], x[rs2]))
         [] op = "Andi" -> Wr(BitAnd(x[rs1], immu))
         [] op = "Sub" -> Wr(WSub(x[rs1], x[rs2]))
         [] op = "Subw" -> Wr(SExt(x[rs1] + U64 - x[rs2], W32))
         [] op = "Sll" -> WrOvf(Shl(x[rs1], x[rs2] % XLEN, XLEN), x[rs2] >= XLEN)
         [] op = "Sllw" -> Wr(SExt(Shl(x[rs1], amt2 % W32, W32), W32))
         [] op = "Slli" -> WrOvf(Shl(x[rs1], imm % XLEN, XLEN), imm >= XLEN)
         [] op = "Slliw" -> Wr(Shl(x[rs1], imm % W32, W32))
         [] op = "Srl" -> Wr(Shr(x[rs1], amt2 % XLEN, XLEN))
         [] op = "Srlw" -> Wr(SExt(Shr(x[rs1], amt2 % W32, W32), W32))
         [] op = "Srli" -> WrOvf(Shr(x[rs1], imm % XLEN, XLEN), imm >= XLEN)
         [] op = "Srliw" -> Wr(Shr(x[rs1], imm % W32, W32))
         [] op = "Sra" -> Wr(FromSigned(Sar(x[rs1], amt2 % XLEN, XLEN)))
         [] op = "Sraw" -> Wr(FromSigned(Sar(x[rs1], amt2 % W32, W32)))
         [] op = "Srai" -> WrOvf(FromSigned(Sar(x[rs1], imm % XLEN, XLEN)), imm >= XLEN)
         [] op = "Sraiw" -> WrOvf(FromSigned(Sar(x[rs1], imm % W32, W32)), imm >= W32)
         [] op = "Or" -> Wr(BitOr(x[rs1], x[rs2]))
         [] op = "Ori" -> Wr(BitOr(x[rs1], immu))
         [] op = "Xor" -> Wr(BitXor(x[rs1], x[rs2]))
         [] op = "Xori" -> Wr(BitXor(x[rs1], immu))
         [] op = "Auipc" -> Wr(WAdd(st.pc, immu))
         [] op = "Jal" ->
              Outcome([link EXCEPT !.pc = WSub(WAdd(st.pc, immu), incr)],
                      "Ok", FALSE, st.pc + incr >= U64)
         [] op = "Jalr" ->
              Outcome([link EXCEPT !.pc = WSub(WAdd(link.x[rs1], immu), incr)],
                      "Ok", FALSE, st.pc + incr >= U64)
         [] op = "Beq" -> ExecBranch(st, x[rs1] = x[rs2], imm, incr)
         [] op = "Bne" -> ExecBranch(st, x[rs1] # x[rs2], imm, incr)
         [] op = "Blt" -> ExecBranch(st, s1 < s2, imm, incr)
         [] op = "Bltu" -> ExecBranch(st, x[rs1] < x[rs2], imm, incr)
         [] op = "Bge" -> ExecBranch(st, s1 >= s2, imm, incr)
         [] op = "Bgeu" -> ExecBranch(st, x[rs1] >= x[rs2], imm, incr)
         [] op = "Slt" -> Wr(IF s1 < s2 THEN 1 ELSE 0)
         [] op = "Sltu" -> Wr(IF x[rs1] < x[rs2] THEN 1 ELSE 0)
         [] op = "Slti" -> Wr(IF s1 < imm THEN 1 ELSE 0)
         [] op = "Sltiu" -> Wr(IF x[rs1] < immu THEN 1 ELSE 0)
         [] op = "Div" -> ExecDiv(st, rd, s1, s2, XLEN, FALSE)
         [] op = "Divw" ->
              ExecDiv(st, rd, Signed(x[rs1], W32), Signed(x[rs2], W32), W32, FALSE)
         [] op = "Divu" -> IF x[rs2] = 0 THEN Panic(st) ELSE Wr(x[rs1] \div x[rs2])
         [] op = "Divuw" ->
              IF amt2 = 0 THEN Panic(st)
              ELSE Wr(SExt(Trunc(x[rs1], W32) \div amt2, W32))
         [] op = "Mul" -> Wr(MulMod(x[rs1], x[rs2], XLEN))
         [] op = "Mulhu" -> Wr(MulHigh(x[rs1], x[rs2]))
         [] op = "Remw" ->
              IF x[rs2] = 0
              THEN WrOvf(SExt(x[rs1], W32), Signed(x[rs1], W32) = MinSigned(W32))
              ELSE ExecDiv(st, rd, Signed(x[rs1], W32), Signed(x[rs2], W32), W32, TRUE)
         [] op = "Remu" -> Wr(IF x[rs2] = 0 THEN x[rs1] ELSE x[rs1] % x[rs2])
         [] op = "Remuw" ->
              IF x[rs2] = 0 THEN Wr(Trunc(x[rs1], W32))
              ELSE IF amt2 = 0 THEN Panic(st)
              ELSE Wr(SExt(Trunc(x[rs1], W32) % amt2, W32))
         [] op = "Amoswapw" -> ExecAmo(st, "swap", rd, rs1, rs2, 4, junk)
         [] op = "Amoswapd" -> ExecAmo(st, "swap", rd, rs1, rs2, 8, junk)
         [] op = "Amoaddw" -> ExecAmo(st, "add", rd, rs1, rs2, 4, junk)
         [] op = "Amoaddd" -> ExecAmo(st, "add", rd, rs1, rs2, 8, junk)
         [] op = "Amoorw" -> ExecAmo(st, "or", rd, rs1, rs2, 4, junk)
         [] op = "Amomaxuw" -> ExecAmo(st, "max", rd, rs1, rs2, 4, junk)
         [] op = "Amomaxud" -> ExecAmo(st, "max", rd, rs1, rs2, 8, junk)
         [] op = "Lrw" -> ExecLoad(st, rd, x[rs1], 4, TRUE, junk)
         [] op = "Lrd" -> ExecLoad(st, rd, x[rs1], 8, FALSE, junk)
         [] op = "Scw" -> LET z == SetX(st, rd, 0) IN ExecStore(z, z.x[rs1], 4, z.x[rs2])
         [] op = "Scd" -> LET z == SetX(st, rd, 0) IN ExecStore(z, z.x[rs1], 8, z.x[rs2])
         [] op \in {"Fcvtdlu", "Fcvtds"} ->
              Wr(IF st.f[rs1] = 0 \/ junk = 0 THEN 0 ELSE MINUS1)
         [] op = "Fled" -> Wr(IF st.f[rs1] = st.f[rs2] \/ junk = 0 THEN 0 ELSE 1)
         [] op = "Fdivd" -> Done([st EXCEPT !.f[rd] = junk])

\* what follows the match: reached only when no arm returned early
AfterMatch(r, incr) ==
    IF r.res = "Ok" THEN [r EXCEPT !.st = Retire(r.st, incr)] ELSE r

\* Emulator::execute: the match with its calls of the profiler, then pc,
\* inst_counter, the tick and x[0]
execute(st, inst, incr, junk) ==
    AfterMatch(ExecInst([st EXCEPT !.profiler = Profiled(st, inst)], inst, incr, junk), incr)

\* the exit code is never seen as set
ExitedNever(st) == FALSE

\* self.exit_code.is_some()
Exited(st) == st.exit_code # None

\* the profile window update of fetch_and_execute; NonZeroU64::new(0) is
\* None, which is 0 here as well
ProfileWindow(st) ==
    IF st.pc = st.profile_start_point
    THEN [st EXCEPT !.profile_end_point = st.x[RA], !.running = TRUE]
    ELSE IF st.pc = st.profile_end_point
    THEN [st EXCEPT !.profile_start_point = 0, !.profile_end_point = 0, !.running = FALSE]
    ELSE st

\* Emulator::fetch_and_execute; the word fetched at pc decodes to inst with
\* length incr.  ret is the Option<u64> returned with Ok
fetch_and_execute(st, inst, incr, junk) ==
    LET fe == load(st.mem, st.pc, 4, junk)
        Returned(r) == [st |-> r.st, res |-> r.res, ret |-> r.st.exit_code,
                        oob |-> fe.oob \/ r.oob, ovf |-> r.ovf]
    IN IF Exited(st)
       THEN [st |-> st, res |-> "Ok", ret |-> st.exit_code, oob |-> FALSE, ovf |-> FALSE]
       ELSE IF ~fe.ok
       THEN [st |-> st, res |-> "Segfault", ret |-> None, oob |-> FALSE, ovf |-> FALSE]
       ELSE Returned(execute(ProfileWindow(st), inst, incr, junk))

\* ------------------------------------------------------------------ state
VARIABLES
    buffers,              \* Memory.buffers
    mmap_count,           \* Memory.mmap_count
    pc,                   \* Emulator.pc
    x,                    \* Emulator.x
    f,                    \* Emulator.f (the bits of each f64)
    file_descriptors,     \* Emulator.file_descriptors
    stdout,               \* Emulator.stdout
    inst_counter,         \* Emulator.inst_counter
    exit_code,            \* Emulator.exit_code; None is -1
    profile_start_point,  \* Emulator.profile_start_point; None is 0
    profile_end_point,    \* Emulator.profile_end_point; None is 0
    running,              \* Emulator.profiler.running
    profiler,             \* Emulator.profiler, but for running
    history,              \* TimeTravel.history, the snapshots by key
    smallest_b_state,     \* TimeTravel.smallest_b_state
    last,                 \* the last call made and what it returned
    nops                  \* number of Memory API calls made

vars == <<buffers, mmap_count, pc, x, f, file_descriptors, stdout, inst_counter,
          exit_code, profile_start_point, profile_end_point, running, profiler,
          history, smallest_b_state, nops, last>>

emuVars == <<pc, x, f, file_descriptors, stdout, inst_counter, exit_code,
             profile_start_point, profile_end_point, running, profiler>>
ttVars == <<history, smallest_b_state>>

Mem == [buffers |-> buffers, mmap_count |-> mmap_count]

\* a call: its arguments, the length of the stack buffer before it, its
\* result (Ok, Segfault, or Abort for a panic), the value returned and
\* whether a raw access ran past the end of the stack Vec
Call(op, a, w, v, slen, res, ret, oob) ==
    [op |-> op, a |-> a, w |-> w, v |-> v, slen |-> slen,
     res |-> res, ret |-> ret, oob |-> oob]

\* the emulator Emulator::new returns, as a record
EmulatorNew(dynamic) ==
    [mem |-> init_auxv_stack(load_elf(dynamic).mem).mem,
     pc |-> load_elf(dynamic).entry,
     x |-> [r \in 0..(NREG - 1) |-> IF r = SP THEN init_auxv_sp ELSE 0],
     f |-> [r \in 0..(NREG - 1) |-> 0],
     file_descriptors |-> << >>, stdout |-> << >>, inst_counter |-> 0,
     exit_code |-> None, profile_start_point |-> 0, profile_end_point |-> 0,
     running |-> FALSE, profiler |-> ProfilerNew]

\* Emulator::new(Memory::load_elf(..)) for a static or a dynamic executable,
\* handed to TimeTravel::new
Init ==
    \E dynamic \in BOOLEAN :
        LET l == load_elf(dynamic)
            s == init_auxv_stack(l.mem)
        IN /\ s.ok
           /\ buffers = s.mem.buffers
           /\ mmap_count = s.mem.mmap_count
           /\ pc = l.entry
           /\ x = [r \in 0..(NREG - 1) |-> IF r = SP THEN init_auxv_sp ELSE 0]
           /\ f = [r \in 0..(NREG - 1) |-> 0]
           /\ file_descriptors = << >>
           /\ stdout = << >>
           /\ inst_counter = 0
           /\ exit_code = None
           /\ profile_start_point = 0
           /\ profile_end_point = 0
           /\ running = FALSE
           /\ profiler = ProfilerNew
           /\ history = (0 :> EmulatorNew(dynamic))
           /\ smallest_b_state = 0
           /\ last = Call("new", 0, 0, 0, 0, "Ok", 0, FALSE)
           /\ nops = 0

\* ------------------------------------------------- the Memory API, called
\* by a driver through the public field Emulator.memory
StackEnd == STACK_START - buffers[STACK_INDEX].len

StackLen == buffers[STACK_INDEX].len

\* a value whose eight bytes are 1 2 3 1 3 2 1 2, and one with other bytes
ValA == FromBytes([i \in 0..7 |-> <<1, 2, 3, 1, 3, 2, 1, 2>>[i + 1]], 8)
ValB == FromBytes([i \in 0..7 |-> <<3, 3, 1, 2, 2, 1, 3, 1>>[i + 1]], 8)
Widths == {1, 4, 8}
StoreArgs == {<<1, ValB>>, <<4, ValB>>, <<8, ValA>>}

\* addresses around the edges of every kind of region
AccessAddrs ==
    { a \in { StackEnd - PAGE_SIZE - 1, StackEnd - PAGE_SIZE, StackEnd - 1, StackEnd,
              STACK_START - 16, STACK_START - 3,
              ProgElf.vaddr,
              HEAP_SPAN, HEAP_SPAN + PAGE_SIZE - 2,
              3 * HEAP_SPAN, 3 * HEAP_SPAN + PAGE_MASK - 1 }
      : a >= 0 /\ a < U64 }

MemStore(addr, w, data) ==
    /\ nops < MaxOps /\ last.res # "Abort"
    /\ LET r == store(Mem, addr, w, data)
       IN \E crash \in (IF r.oob THEN BOOLEAN ELSE {FALSE}) :
            /\ buffers' = r.mem.buffers
            /\ last' = Call("store", addr, w, data, StackLen,
                            IF crash THEN "Abort" ELSE IF r.ok THEN "Ok" ELSE "Segfault",
                            0, r.oob)
    /\ nops' = nops + 1
    /\ UNCHANGED <<mmap_count, emuVars, ttVars>>

MemLoad(addr, w, junk) ==
    /\ nops < MaxOps /\ last.res # "Abort"
    /\ LET r == load(Mem, addr, w, junk)
       IN last' = Call("load", addr, w, 0, StackLen,
                       IF r.ok THEN "Ok" ELSE "Segfault", r.val, r.oob)
    /\ nops' = nops + 1
    /\ UNCHANGED <<buffers, mmap_count, emuVars, ttVars>>

MemBrk(new_end) ==
    /\ nops < MaxOps /\ last.res # "Abort"
    /\ LET r == brk(Mem, new_end)
       IN /\ buffers' = r.mem.buffers
          /\ last' = Call("brk", new_end, 0, 0, StackLen, "Ok", r.ret, FALSE)
    /\ nops' = nops + 1
    /\ UNCHANGED <<mmap_count, emuVars, ttVars>>

MemMmap(addr, size) ==
    /\ nops < MaxOps /\ last.res # "Abort"
    /\ LET r == mmap(Mem, addr, size)
       IN /\ buffers' = r.mem.buffers
          /\ mmap_count' = r.mem.mmap_count
          /\ last' = Call("mmap", addr, 0, size, StackLen,
                          IF r.abort THEN "Abort" ELSE "Ok", r.ret, r.oob)
    /\ nops' = nops + 1
    /\ UNCHANGED <<emuVars, ttVars>>

BrkArgs == {0, 5, HEAP_SPAN, HEAP_SPAN + 10, HEAP_SPAN + PAGE_SIZE, HEAP_SPAN + 2 * PAGE_SIZE}
MmapAddrs == {0, 3 * HEAP_SPAN, 4 * HEAP_SPAN + 16, HEAP_SPAN + PAGE_SIZE,
              STACK_INDEX * HEAP_SPAN}
MmapSizes == {1, PAGE_SIZE}

NextMem ==
    \/ \E addr \in AccessAddrs, sa \in StoreArgs : MemStore(addr, sa[1], sa[2])
    \/ \E addr \in AccessAddrs, w \in Widths, junk \in {0, BYTE - 1} : MemLoad(addr, w, junk)
    \/ \E new_end \in BrkArgs : MemBrk(new_end)
    \/ \E addr \in MmapAddrs, size \in MmapSizes : MemMmap(addr, size)

SpecMem == Init /\ [][NextMem]_vars

\* ------------------------------------------------------- the interpreter
\* the emulator as a record
Emu ==
    [mem |-> Mem, pc |-> pc, x |-> x, f |-> f, file_descriptors |-> file_descriptors,
     stdout |-> stdout, inst_counter |-> inst_counter, exit_code |-> exit_code,
     profile_start_point |-> profile_start_point, profile_end_point |-> profile_end_point,
     running |-> running, profiler |-> profiler]

\* an instruction of 4 bytes, and a compressed one of 2
I4(op, rd, rs1, rs2, imm) == [inst |-> Inst(op, rd, rs1, rs2, imm), incr |-> 4]
I2(op, rd, rs1, rs2, imm) == [inst |-> Inst(op, rd, rs1, rs2, imm), incr |-> 2]

\* the decoded instructions a program is made of
Program ==
    { I2("Addi", A7, 0, 0, Syscall.Exit), I4("Addi", A7, 0, 0, Syscall.ExitGroup),
      I2("Addi", A0, 0, 0, 7), I4("Addi", A7, 0, 0, Syscall.Brk), I4("Addi", A7, 0, 0, 1),
      I4("Fence", 0, 0, 0, 0), I2("Ebreak", 0, 0, 0, 0), I4("Ecall", 0, 0, 0, 0),
      I4("Error", 0, 0, 0, 0),
      I4("Lui", A1, 0, 0, HEAP_SPAN), I4("Addi", A1, SP, 0, 24), I4("Addi", 0, SP, 0, 1),
      I4("Auipc", A0, 0, 0, 8),
      I2("Jal", 0, 0, 0, 8), I4("Jal", RA, 0, 0, 0 - 4),
      I2("Jalr", 0, RA, 0, 0), I4("Jalr", RA, RA, 0, 4),
      I4("Beq", 0, 0, 0, 8), I4("Bne", 0, SP, 0, 0 - 8), I4("Blt", 0, SP, 0, 8),
      I4("Bltu", 0, SP, 0, 8), I4("Bge", 0, SP, 0, 8), I4("Bgeu", 0, SP, 0, 8) }
    \cup { I4(op, 0, SP, 0, 24) : op \in {"Ld"} }
    \cup { I4(op, A0, A1, 0, 0) : op \in {"Ld"} }
    \cup { I4(op, A0, SP, 0, 24) : op \in {"Lw", "Lwu", "Lhu", "Lb", "Lbu"} }
    \cup { I4(op, 1, SP, 0, 24) : op \in {"Fld", "Flw"} }
    \cup { I4(op, 0, SP, SP, 8) : op \in {"Sd", "Sw", "Sh", "Sb"} }
    \cup { I4(op, 0, SP, 1, 8) : op \in {"Fsd", "Fsw"} }
    \cup { I4(op, 0, A1, SP, 0) : op \in {"Sd"} }
    \cup { I4(op, A0, SP, A7, 0) :
             op \in {"Add", "Addw", "And", "Sub", "Subw", "Sll", "Sllw", "Srl", "Srlw",
                     "Sra", "Sraw", "Or", "Xor", "Slt", "Sltu", "Mul", "Mulhu", "Div",
                     "Divw", "Divu", "Divuw", "Remw", "Remu", "Remuw"} }
    \cup { I4(op, A0, SP, 0, 3) :
             op \in {"Addiw", "Andi", "Slli", "Slliw", "Srli", "Srliw", "Srai", "Sraiw",
                     "Ori", "Xori", "Slti", "Sltiu"} }
    \cup { I4(op, A0, SP, 0, 0) : op \in {"Slliw"} }
    \cup { I4(op, A0, SP, A7, 0) :
             op \in {"Amoswapw", "Amoaddw", "Amoaddd", "Amoorw", "Amomaxuw", "Amomaxud",
                     "Lrw", "Scw"} }
    \cup { I4(op, 0, A1, A7, 0) : op \in {"Amoswapd"} }
    \cup { I4(op, SP, SP, A7, 0) : op \in {"Amoswapd", "Scd"} }
    \cup { I4(op, A7, SP, A7, 0) : op \in {"Amoaddd"} }
    \cup { I4(op, SP, A1, A7, 0) : op \in {"Scd"} }
    \cup { I4(op, A0, A1, SP, 0) : op \in {"Lrd", "Scd"} }
    \cup { I4(op, A0, 1, 2, 0) : op \in {"Fcvtdlu", "Fcvtds", "Fled"} }
    \cup { I4(op, 1, 1, 2, 0) : op \in {"Fdivd"} }

\* the part of MaxFuel an instruction uses
Cost(p) == IF p.inst.op = "Addi" /\ p.inst.rs1 = 0 THEN 1 ELSE 2

\* the float instructions, whose results depend on bits not modelled
IsFloatOp(op) == op \in {"Fcvtdlu", "Fcvtds", "Fled", "Fdivd"}

\* what kind of instruction a step was given
ClassOf(op) ==
    IF op \in {"Ecall", "Error"} THEN op
    ELSE IF op \in {"Beq", "Bne", "Blt", "Bltu", "Bge", "Bgeu"} THEN "Branch"
    ELSE IF op \in {"Jal", "Jalr"} THEN "Jump"
    ELSE "Other"

\* one call of fetch_and_execute by the driver (the loop of Emulator::run,
\* or a caller that goes on after an Err).  The word fetched at pc is word
\* and decodes to the instruction p; bytes read past the end of the stack
\* Vec are junk, and a run that left the Vec or overflowed unchecked
\* arithmetic may die (nothing is fetched once the exit code is set).
\* cost is the part of fuel the call uses
Exec(p, word, cost, fuel) ==
    /\ last.res # "Abort"
    /\ Exited(Emu) \/ nops + cost <= fuel
    /\ \E r0 \in {fetch_and_execute(Emu, p.inst, p.incr, 0)} :
       \E junk \in (IF r0.oob \/ IsFloatOp(p.inst.op) THEN {0, BYTE - 1} ELSE {0}),
          dies \in (IF r0.oob \/ r0.ovf THEN BOOLEAN ELSE {FALSE}) :
       \E r1 \in {IF junk = 0 THEN r0
                  ELSE fetch_and_execute(Emu, p.inst, p.incr, junk)} :
       \E r \in {IF dies \/ r1.res = "Abort"
                 THEN [st |-> Emu, res |-> "Abort", ret |-> None,
                       oob |-> r1.oob, ovf |-> r1.ovf]
                 ELSE r1} :
         /\ buffers' = r.st.mem.buffers
         /\ mmap_count' = r.st.mem.mmap_count
         /\ pc' = r.st.pc
         /\ x' = r.st.x
         /\ f' = r.st.f
         /\ file_descriptors' = r.st.file_descriptors
         /\ stdout' = r.st.stdout
         /\ inst_counter' = r.st.inst_counter
         /\ exit_code' = r.st.exit_code
         /\ profile_start_point' = r.st.profile_start_point
         /\ profile_end_point' = r.st.profile_end_point
         /\ running' = r.st.running
         /\ profiler' = r.st.profiler
         /\ UNCHANGED ttVars
         /\ last' = Call("step",
                         IF ~Exited(Emu) /\ r.res = "Ok"
                            /\ ExecInst(Emu, p.inst, p.incr, junk).st.x[0] # 0
                         THEN 1 ELSE 0,
                         IF Exited(Emu) THEN << >>
                         ELSE [inst |-> p.inst, incr |-> p.incr, word |-> word],
                         IF Exited(Emu) THEN "Exited" ELSE ClassOf(p.inst.op),
                         0, r.res, r.ret, r.oob)
    /\ nops' = IF Exited(Emu) THEN nops ELSE nops + cost

\* a step of a program made of the instructions of Program
Step == \E p \in Program : Exec(p, << >>, Cost(p), MaxFuel)

Next == Step

Spec == Init /\ [][Next]_vars

\* --------------------------------------------- programs that make syscalls
\* the number of syscalls a guest program makes in one run
MaxCalls == 3

\* li rd, v (c.li / addi from x0), lui rd, v and addi rd, sp, off
Li(rd, v) == I4("Addi", rd, 0, 0, v)
LuiOf(rd, v) == I4("Lui", rd, 0, 0, v)
SpRel(rd, off) == I4("Addi", rd, SP, 0, off)
ECALL == I4("Ecall", 0, 0, 0, 0)

\* where the guest keeps a file name and a read buffer: in the free part of
\* the stack page, below x[SP]
NAME_OFF == 0 - 32
BUF_OFF == 0 - 64
\* what init_auxv_stack left above x[SP]: the program name, and argv[0]
\* followed by argc, which read as an iovec is { program name, 1 }
PROG_NAME_OFF == program_name_addr - init_auxv_sp
ARGV_OFF == argv_addr - init_auxv_sp

\* the basic blocks of a guest program: the argument registers are loaded,
\* then ecall
SysCalls ==
    { <<Li(A7, Syscall.Openat), SpRel(A1, NAME_OFF), ECALL>>,
      <<Li(A7, Syscall.Openat), LuiOf(A1, HEAP_SPAN), ECALL>>,
      <<Li(A7, Syscall.Close), Li(A0, LIBC_FILE_DESCRIPTOR), ECALL>>,
      <<Li(A7, Syscall.Read), Li(A0, LIBC_FILE_DESCRIPTOR), SpRel(A1, BUF_OFF), Li(A2, 2),
        ECALL>>,
      <<Li(A7, Syscall.Read), Li(A0, LIBC_FILE_DESCRIPTOR), SpRel(A1, BUF_OFF), Li(A2, 8),
        ECALL>>,
      <<Li(A7, Syscall.Lseek), Li(A0, LIBC_FILE_DESCRIPTOR), Li(A1, 8), Li(A2, 0), ECALL>>,
      <<Li(A7, Syscall.Lseek), Li(A0, LIBM_FILE_DESCRIPTOR), Li(A1, 1), Li(A2, 0), ECALL>>,
      <<Li(A7, Syscall.Write), Li(A0, 1), SpRel(A1, PROG_NAME_OFF), Li(A2, 3), ECALL>>,
      <<Li(A7, Syscall.Write), Li(A0, 1), SpRel(A1, PROG_NAME_OFF), Li(A2, 6), ECALL>>,
      <<Li(A7, Syscall.Write), Li(A0, 3), SpRel(A1, PROG_NAME_OFF), Li(A2, 1), ECALL>>,
      <<Li(A7, Syscall.Writev), Li(A0, 2), SpRel(A1, ARGV_OFF), Li(A2, 1), ECALL>>,
      <<Li(A7, Syscall.Mmap), Li(A0, 0), Li(A1, 2), Li(A3, 0), Li(A4, LIBC_FILE_DESCRIPTOR),
        Li(A5, 1), ECALL>>,
      <<Li(A7, Syscall.Mmap), Li(A0, 0), Li(A1, 2), Li(A3, 0), Li(A4, LIBM_FILE_DESCRIPTOR),
        Li(A5, 8), ECALL>> }

\* the file names the driver puts in guest memory, NUL-terminated
PlantedNames == {LIBC_NAME \o <<0>>, LIBM_NAME \o <<0>>}

\* the loop of Emulator::run over the instructions of code from the i-th
\* on: it goes on while fetch_and_execute returns Ok(None).  at is the
\* emulator when the last instruction was fetched, n its index
RECURSIVE run_block(_, _, _, _)
run_block(st, code, i, junk) ==
    LET Then(r, t) == [t EXCEPT !.oob = r.oob \/ t.oob, !.ovf = r.ovf \/ t.ovf]
        Go(r) ==
            IF r.res # "Ok" \/ r.ret # None \/ i >= Len(code)
            THEN [st |-> r.st, res |-> r.res, ret |-> r.ret, oob |-> r.oob, ovf |-> r.ovf,
                  at |-> st, n |-> i]
            ELSE Then(r, run_block(r.st, code, i + 1, junk))
    IN Go(fetch_and_execute(st, code[i].inst, code[i].incr, junk))

\* the driver writes a file name into guest memory through the public
\* field Emulator.memory
SysPlant(s, addr) ==
    /\ last.res # "Abort"
    /\ \E r \in {write_n(Mem, s, addr, Len(s))} :
       \E crash \in (IF r.oob THEN BOOLEAN ELSE {FALSE}) :
         /\ buffers' = r.mem.buffers
         /\ last' = Call("write_n", addr, Len(s), s, StackLen,
                         IF crash THEN "Abort" ELSE IF r.ok THEN "Ok" ELSE "Segfault",
                         0, r.oob)
    /\ UNCHANGED <<mmap_count, emuVars, ttVars, nops>>

\* the driver runs the guest through one block of SysCalls.  last.op is
\* "ecall" when the ecall of the block was reached; last.a and last.v are
\* x[A0] and the registers when it was fetched
SysCall(code) ==
    /\ last.res # "Abort"
    /\ nops < MaxCalls
    /\ \E r0 \in {run_block(Emu, code, 1, 0)} :
       \E junk \in (IF r0.oob THEN {0, BYTE - 1} ELSE {0}),
          dies \in (IF r0.oob \/ r0.ovf THEN BOOLEAN ELSE {FALSE}) :
       \E r1 \in {IF junk = 0 THEN r0 ELSE run_block(Emu, code, 1, junk)} :
       \E r \in {IF dies \/ r1.res = "Abort"
                 THEN [r1 EXCEPT !.st = Emu, !.res = "Abort", !.ret = None]
                 ELSE r1} :
         /\ buffers' = r.st.mem.buffers
         /\ mmap_count' = r.st.mem.mmap_count
         /\ pc' = r.st.pc
         /\ x' = r.st.x
         /\ f' = r.st.f
         /\ file_descriptors' = r.st.file_descriptors
         /\ stdout' = r.st.stdout
         /\ inst_counter' = r.st.inst_counter
         /\ exit_code' = r.st.exit_code
         /\ profile_start_point' = r.st.profile_start_point
         /\ profile_end_point' = r.st.profile_end_point
         /\ running' = r.st.running
         /\ profiler' = r.st.profiler
         /\ UNCHANGED ttVars
         /\ last' = Call(IF r.n = Len(code) THEN "ecall" ELSE "block",
                         r.at.x[A0], r.n, r.at.x, StackLen, r.res, r.ret, r.oob)
    /\ nops' = nops + 1

NextSys ==
    \/ \E s \in PlantedNames : SysPlant(s, WAdd(init_auxv_sp, FromSigned(NAME_OFF)))
    \/ \E code \in SysCalls : SysCall(code)

SpecSys == Init /\ [][NextSys]_vars

\* ---------------------------------------------------------------- decode
\* a 32-bit word as fetched, as its two 16-bit halves <<bits 31..16, bits 15..0>>
Half == Pow2(16)
Word(hi, lo) == <<hi, lo>>

\* (inst >> lo) & (2^n - 1)
Field(w, lo, n) ==
    IF lo >= 16 THEN (w[1] \div Pow2(lo - 16)) % Pow2(n)
    ELSE IF lo + n <= 16 THEN (w[2] \div Pow2(lo)) % Pow2(n)
    ELSE (w[2] \div Pow2(lo)) + Pow2(16 - lo) * (w[1] % Pow2(lo + n - 16))

\* Inst::Error(raw)
Error(raw) ==
    [op |-> "Error", rd |-> 0, rs1 |-> 0, rs2 |-> 0, imm |-> 0, raw |-> raw]

\* Inst::decode_normal.  An immediate cast to u32 is kept as the i32 with
\* the same bits
decode_normal(inst) ==
    LET opcode == Field(inst, 0, 7)
        rd == Field(inst, 7, 5)
        rs1 == Field(inst, 15, 5)
        rs2 == Field(inst, 20, 5)
        funct3 == Field(inst, 12, 3)
        funct5 == Field(inst, 27, 5)
        funct6 == Field(inst, 26, 6)
        funct7 == Field(inst, 25, 7)
        \* (inst & 0xFFF00000) as i32 >> 20
        immI == Signed(Field(inst, 20, 12), 12)
        \* imm[11:5] | imm[4:0]
        immS == Signed(funct7, 7) * 32 + rd
        \* (inst & 0xFFFFF000) as i32
        immU == Signed(inst[1], 16) * Half + Field(inst, 12, 4) * 4096
        \* imm[10:5] | imm[12] | imm[11] | imm[4:1]
        immB == Field(inst, 25, 6) * 32 - Field(inst, 31, 1) * 4096
                + Field(inst, 7, 1) * 2048 + Field(inst, 8, 4) * 2
        \* imm[19:12] | imm[11] | imm[10:1] | imm[20]
        immJ == Field(inst, 12, 8) * 4096 + Field(inst, 20, 1) * 2048
                + Field(inst, 21, 10) * 2 - Field(inst, 31, 1) * 1048576
        shamt6 == Field(inst, 20, 6)
        shamt5 == Field(inst, 20, 5)
        rm == Field(inst, 12, 2)
        E == Error(inst)
        R(op) == Inst(op, rd, rs1, rs2, 0)
        Im(op, imm) == Inst(op, rd, rs1, 0, imm)
        St(op) == Inst(op, 0, rs1, rs2, immS)
        Br(op) == Inst(op, 0, rs1, rs2, immB)
        F7(k, op, other) == IF funct7 = k THEN R(op) ELSE other
    IN CASE opcode = 3 ->
              (CASE funct3 = 0 -> Im("Lb", immI)
                 [] funct3 = 2 -> Im("Lw", immI)
                 [] funct3 = 3 -> Im("Ld", immI)
                 [] funct3 = 4 -> Im("Lbu", immI)
                 [] funct3 = 5 -> Im("Lhu", immI)
                 [] funct3 = 6 -> Im("Lwu", immI)
                 [] OTHER -> E)
         [] opcode = 7 ->
              (CASE funct3 = 2 -> Im("Flw", immI)
                 [] funct3 = 3 -> Im("Fld", immI)
                 [] OTHER -> E)
         [] opcode = 15 -> Inst("Fence", 0, 0, 0, 0)
         [] opcode = 19 ->
              (CASE funct3 = 0 -> Im("Addi", immI)
                 [] funct3 = 1 -> Im("Slli", shamt6)
                 [] funct3 = 2 -> Im("Slti", immI)
                 [] funct3 = 3 -> Im("Sltiu", immI)
                 [] funct3 = 4 -> Im("Xori", immI)
                 [] funct3 = 5 ->
                      (CASE funct6 = 0 -> Im("Srli", shamt6)
                         [] funct6 = 16 -> Im("Srai", shamt6)
                         [] OTHER -> E)
                 [] funct3 = 6 -> Im("Ori", immI)
                 [] funct3 = 7 -> Im("Andi", immI))
         [] opcode = 23 -> Inst("Auipc", rd, 0, 0, immU)
         [] opcode = 27 ->
              (CASE funct3 = 0 -> Im("Addiw", immI)
                 [] funct3 = 1 -> IF funct7 = 0 THEN Im("Slliw", shamt5) ELSE E
                 [] funct3 = 5 ->
                      (CASE funct7 = 0 -> Im("Srliw", shamt5)
                         [] funct7 = 32 -> Im("Sraiw", shamt5)
                         [] OTHER -> E)
                 [] OTHER -> E)
         [] opcode = 35 ->
              (CASE funct3 = 3 -> St("Sd")
                 [] funct3 = 2 -> St("Sw")
                 [] funct3 = 1 -> St("Sh")
                 [] funct3 = 0 -> St("Sb")
                 [] OTHER -> E)
         [] opcode = 39 ->
              (CASE funct3 = 2 -> St("Fsw")
                 [] funct3 = 3 -> St("Fsd")
                 [] OTHER -> E)
         [] opcode = 51 ->
              (CASE funct3 = 0 -> F7(0, "Add", F7(32, "Sub", F7(1, "Mul", E)))
                 [] funct3 = 1 -> F7(0, "Sll", E)
                 [] funct3 = 2 -> F7(0, "Slt", E)
                 [] funct3 = 3 -> F7(0, "Sltu", F7(1, "Mulhu", E))
                 [] funct3 = 4 -> F7(0, "Xor", F7(1, "Div", E))
                 [] funct3 = 5 -> F7(0, "Srl", F7(1, "Divu", F7(32, "Sra", E)))
                 [] funct3 = 7 -> F7(0, "And", F7(1, "Remu", E))
                 [] funct3 = 6 -> F7(0, "Or", E))
         [] opcode = 55 -> Inst("Lui", rd, 0, 0, immU)
         [] opcode = 59 ->
              (CASE funct3 = 0 -> F7(0, "Addw", F7(32, "Subw", E))
                 [] funct3 = 1 -> F7(0, "Sllw", E)
                 [] funct3 = 4 -> F7(1, "Divw", E)
                 [] funct3 = 5 -> F7(0, "Srlw", F7(1, "Divuw", F7(32, "Sraw", E)))
                 [] funct3 = 6 -> F7(1, "Remw", E)
                 [] funct3 = 7 -> F7(1, "Remuw", E)
                 [] OTHER -> E)
         [] opcode = 47 ->
              (CASE funct3 = 2 ->
                      (CASE funct5 = 0 -> R("Amoaddw")
                         [] funct5 = 1 -> R("Amoswapw")
                         [] funct5 = 2 -> Inst("Lrw", rd, rs1, 0, 0)
                         [] funct5 = 3 -> R("Scw")
                         [] funct5 = 8 -> R("Amoorw")
                         [] funct5 = 28 -> R("Amomaxuw")
                         [] OTHER -> E)
                 [] funct3 = 3 ->
                      (CASE funct5 = 0 -> R("Amoaddd")
                         [] funct5 = 1 -> R("Amoswapd")
                         [] funct5 = 2 -> Inst("Lrd", rd, rs1, 0, 0)
                         [] funct5 = 3 -> R("Scd")
                         [] funct5 = 28 -> R("Amomaxud")
                         [] OTHER -> E)
                 [] OTHER -> E)
         [] opcode = 83 ->
              (CASE funct7 = 13 -> R("Fdivd")
                 [] funct7 = 81 /\ rm = 0 -> R("Fled")
                 [] funct7 = 105 /\ rs2 = 3 -> Inst("Fcvtdlu", rd, rs1, 0, rm)
                 [] OTHER -> E)
         [] opcode = 99 ->
              (CASE funct3 = 0 -> Br("Beq")
                 [] funct3 = 1 -> Br("Bne")
                 [] funct3 = 4 -> Br("Blt")
                 [] funct3 = 5 -> Br("Bge")
                 [] funct3 = 6 -> Br("Bltu")
                 [] funct3 = 7 -> Br("Bgeu")
                 [] OTHER -> E)
         [] opcode = 103 ->
              \* (inst & 0xFFF00000) as i32 >> 12
              IF funct3 = 0 THEN Im("Jalr", immI * 256) ELSE E
         [] opcode = 111 -> Inst("Jal", rd, 0, 0, immJ)
         [] opcode = 115 -> Inst("Ecall", 0, 0, 0, 0)
         [] OTHER -> E

\* what decode_compressed comes to: an instruction, or the panic of a
\* failed assert_ne!
Decoded(i) == [panic |-> FALSE, inst |-> i]
AssertFailed == [panic |-> TRUE, inst |-> Error(Word(0, 0))]

\* Inst::decode_compressed
decode_compressed(inst) ==
    LET B(lo, n) == (inst \div Pow2(lo)) % Pow2(n)
        quadrant == B(0, 2)
        funct3 == B(13, 3)
        E == Decoded(Error(Word(0, inst)))
        \* the registers x8..x15 of the short forms
        rlo == B(2, 3) + 8
        rhi == B(7, 3) + 8
        rfull == B(7, 5)
        r2full == B(2, 5)
        \* imm[5] | imm[4:0], sign-extended
        imm6 == Signed(B(12, 1) * 32 + B(2, 5), 6)
        shamt == B(12, 1) * 32 + B(2, 5)
        \* imm[5:3] | imm[7:6]
        immD == B(10, 3) * 8 + B(5, 2) * 64
        \* imm[6] | imm[2] | imm[5:3]
        immW == B(5, 1) * 64 + B(6, 1) * 4 + B(10, 3) * 8
        \* imm[4:3] | imm[8] | imm[5] | imm[2:1] | imm[7:6]
        immBz == B(10, 2) * 8 - B(12, 1) * 256 + B(2, 1) * 32 + B(3, 2) * 2 + B(5, 2) * 64
        \* imm[5] | imm[8:6] | imm[4:3]
        immDsp == B(12, 1) * 32 + B(2, 3) * 64 + B(5, 2) * 8
        \* imm[8:6] | imm[5:3]
        immSDsp == B(7, 3) * 64 + B(10, 3) * 8
        I(op, rd, rs1, rs2, imm) == Decoded(Inst(op, rd, rs1, rs2, imm))
        Alu(op) == I(op, rhi, rhi, rlo, 0)
    IN CASE quadrant = 0 ->
              (CASE funct3 = 0 ->
                      I("Addi", rlo, SP, 0,
                        B(5, 1) * 8 + B(6, 1) * 4 + B(7, 4) * 64 + B(11, 2) * 16)
                 [] funct3 = 1 -> I("Fld", rlo, rhi, 0, immD)
                 [] funct3 = 2 -> I("Lw", rlo, rhi, 0, immW)
                 [] funct3 = 3 -> I("Ld", rlo, rhi, 0, immD)
                 [] funct3 = 5 -> I("Fsd", 0, rhi, rlo, immD)
                 [] funct3 = 6 -> I("Sw", 0, rhi, rlo, immW)
                 [] funct3 = 7 -> I("Sd", 0, rhi, rlo, immD)
                 [] OTHER -> E)
         [] quadrant = 1 ->
              (CASE funct3 = 0 -> I("Addi", rfull, rfull, 0, imm6)
                 [] funct3 = 1 -> I("Addiw", rfull, rfull, 0, imm6)
                 [] funct3 = 2 -> I("Addi", rfull, 0, 0, imm6)
                 [] funct3 = 3 ->
                      IF rfull = 2
                      THEN I("Addi", SP, SP, 0,
                             B(2, 1) * 32 + B(3, 2) * 128 + B(5, 1) * 64 + B(6, 1) * 16
                             - B(12, 1) * 512)
                      ELSE I("Lui", rfull, 0, 0, B(2, 5) * 4096 - B(12, 1) * 131072)
                 [] funct3 = 4 ->
                      (CASE B(10, 2) = 0 ->
                              \* assert_ne!(shamt, 0)
                              IF shamt = 0 THEN AssertFailed
                              ELSE I("Srli", rhi, rhi, 0, shamt)
                         [] B(10, 2) = 1 ->
                              IF shamt = 0 THEN AssertFailed
                              ELSE I("Srai", rhi, rhi, 0, shamt)
                         [] B(10, 2) = 2 -> I("Andi", rhi, rhi, 0, imm6)
                         [] B(10, 2) = 3 ->
                              (CASE B(12, 1) * 4 + B(5, 2) = 0 -> Alu("Sub")
                                 [] B(12, 1) * 4 + B(5, 2) = 1 -> Alu("Xor")
                                 [] B(12, 1) * 4 + B(5, 2) = 2 -> Alu("Or")
                                 [] B(12, 1) * 4 + B(5, 2) = 3 -> Alu("And")
                                 [] B(12, 1) * 4 + B(5, 2) = 4 -> Alu("Subw")
                                 [] B(12, 1) * 4 + B(5, 2) = 5 -> Alu("Addw")
                                 [] OTHER -> E))
                 [] funct3 = 5 ->
                      I("Jal", 0, 0, 0,
                        B(2, 1) * 32 + B(3, 3) * 2 + B(6, 1) * 128 + B(7, 1) * 64
                        + B(8, 1) * 1024 + B(9, 2) * 256 + B(11, 1) * 16 - B(12, 1) * 2048)
                 [] funct3 = 6 -> I("Beq", 0, rhi, 0, immBz)
                 [] funct3 = 7 -> I("Bne", 0, rhi, 0, immBz))
         [] quadrant = 2 ->
              (CASE funct3 = 0 ->
                      IF shamt # 0 THEN I("Slli", rfull, rfull, 0, shamt) ELSE E
                 [] funct3 = 1 -> I("Fld", rfull, SP, 0, immDsp)
                 [] funct3 = 2 ->
                      IF rfull # 0
                      THEN I("Lw", rfull, SP, 0, B(2, 2) * 64 + B(4, 3) * 4 + B(12, 1) * 32)
                      ELSE E
                 [] funct3 = 3 -> IF rfull # 0 THEN I("Ld", rfull, SP, 0, immDsp) ELSE E
                 [] funct3 = 4 ->
                      (CASE B(12, 1) = 0 /\ rfull # 0 /\ r2full = 0 ->
                              I("Jalr", 0, rfull, 0, 0)
                         [] B(12, 1) = 0 /\ rfull # 0 /\ r2full # 0 ->
                              I("Add", rfull, 0, r2full, 0)
                         [] B(12, 1) = 1 /\ rfull # 0 /\ r2full # 0 ->
                              I("Add", rfull, rfull, r2full, 0)
                         [] B(12, 1) = 1 /\ rfull # 0 /\ r2full = 0 ->
                              I("Jalr", RA, rfull, 0, 0)
                         [] OTHER -> I("Ebreak", 0, 0, 0, 0))
                 [] funct3 = 5 -> I("Fsd", 0, SP, r2full, immSDsp)
                 [] funct3 = 6 -> I("Sw", 0, SP, r2full, B(7, 2) * 64 + B(9, 4) * 4)
                 [] funct3 = 7 -> I("Sd", 0, SP, r2full, immSDsp))
         [] OTHER -> E

\* Inst::decode: the instruction and the number of bytes read
decode(inst) ==
    LET Short(d) == [panic |-> d.panic, inst |-> d.inst, incr |-> 2]
    IN IF Field(inst, 0, 2) = 3
       THEN [panic |-> FALSE, inst |-> decode_normal(inst), incr |-> 4]
       ELSE Short(decode_compressed(inst[2]))

\* ----------------------------------------------- fetch, decode, execute
\* the number of words a run fetches
MaxWords == 3

\* the words found at pc: c.srli x8, 0; ebreak; ecall; fence; c.ebreak;
\* two words that are no instruction (0xFFFFFFFF, and 0x8000 followed by
\* 0x0001); addi a7, x0, 93; jalr x0, 0(sp); jalr ra, 4(sp);
\* jalr sp, 0(sp); jalr ra, -4(ra); c.jr sp; c.jalr sp; and 0
Words ==
    { Word(0, 32769), Word(16, 115), Word(0, 115), Word(4080, 15), Word(0, 36866),
      Word(65535, 65535), Word(1, 32768), Word(1488, 2195), Word(1, 103), Word(65, 231),
      Word(1, 359), Word(65472, 32999), Word(0, 33026), Word(0, 37122), Word(0, 0) }

\* one call of fetch_and_execute with the word inst at pc: fetch decodes
\* it, and a panic of decode ends the process
FetchExec(inst) ==
    \E d \in {decode(inst)} :
       IF d.panic
       THEN /\ last.res # "Abort"
            /\ ~Exited(Emu)
            /\ nops < MaxWords
            /\ last' = Call("decode", 0, [word |-> inst], "Panic", 0, "Abort", None, FALSE)
            /\ nops' = nops + 1
            /\ UNCHANGED <<buffers, mmap_count, emuVars, ttVars>>
       ELSE Exec([inst |-> d.inst, incr |-> d.incr], inst, 1, MaxWords)

NextDec == \E inst \in Words : FetchExec(inst)

SpecDec == Init /\ [][NextDec]_vars

\* ------------------------------------------------------- the profile window
\* the number of instructions a profiled run executes
MaxProfSteps == 4

\* what Disassembler::get_symbol_addr finds for the label given to
\* profile_label: a function of the program 8 bytes after its entry, or
\* nothing
ProfLabels == {ProgElf.entry + 8, None}

\* the instructions of the profiled program: a call of the function, a call
\* of the function by itself, ret, an instruction of its body, a branch that
\* is taken (to itself) and one that is not
ProfProgram ==
    { I4("Jal", RA, 0, 0, 8), I4("Jal", RA, 0, 0, 0), I2("Jalr", 0, RA, 0, 0),
      I4("Addi", A0, A0, 0, 1), I4("Beq", 0, 0, 0, 0), I4("Bne", 0, 0, 0, 8) }

\* Emulator::profile_label, called by the driver before the run; addr is
\* what get_symbol_addr returned
ProfileLabel(addr) ==
    /\ last.op = "new"
    /\ profile_start_point' = IF addr = None THEN profile_start_point ELSE addr
    /\ last' = Call("profile_label", addr, 0, 0, 0,
                    IF addr = None THEN "InvalidLabel" ELSE "Ok", 0, FALSE)
    /\ UNCHANGED <<buffers, mmap_count, pc, x, f, file_descriptors, stdout, inst_counter,
                   exit_code, profile_end_point, running, profiler, history,
                   smallest_b_state, nops>>

ProfStep == \E p \in ProfProgram : Exec(p, << >>, 1, MaxProfSteps)

NextProf ==
    \/ \E addr \in ProfLabels : ProfileLabel(addr)
    \/ ProfStep

SpecProf == Init /\ [][NextProf]_vars




\* ------------------------------------------------------------ time travel
\* time_travel.rs: B_STATE_INTERVAL, 10000 instructions, and B_STATE_LIMIT,
\* 250 snapshots; both scaled
B_STATE_INTERVAL == 2
B_STATE_LIMIT == 2

\* the largest amount given to TimeTravel::step, forward or backward
MaxAmount == 3
\* the most instructions a run executes: enough to evict two snapshots
MaxInsts == (B_STATE_LIMIT + 2) * B_STATE_INTERVAL

\* the guest program, by address.  The dynamic executable starts in a loop
\* that counts in a0 and stores it on the stack; the static one counts a
\* few times and exits
TTBody == 3
\* where the two programs start: the entry of the linker for the dynamic
\* executable, e_entry for the static one
TTLoopEntry == load_elf(TRUE).entry
TTLineEntry == load_elf(FALSE).entry
TTCode(at) ==
    LET LoopAt(k) == IF k % 12 = 0 THEN I4("Addi", A0, A0, 0, 1)
                     ELSE IF k % 12 = 4 THEN I4("Sd", 0, SP, A0, 8)
                     ELSE I4("Jal", 0, 0, 0, 0 - 8)
        LineAt(k) == IF k < 4 * TTBody THEN I4("Addi", A0, A0, 0, 1)
                     ELSE IF k = 4 * TTBody THEN I4("Addi", A7, 0, 0, Syscall.Exit)
                     ELSE I4("Ecall", 0, 0, 0, 0)
    IN IF heap_index(at) = 2 THEN LoopAt(at - TTLoopEntry)
       ELSE LineAt(at - TTLineEntry)

\* self.current.fetch_and_execute()
tt_fetch(st) ==
    LET Of(p) == fetch_and_execute(st, p.inst, p.incr, 0)
    IN Of(TTCode(st.pc))

\* what TimeTravel::step leaves and returns: ret is the Option<u64>, res is
\* Abort when an assertion or an index panicked
TTResult(current_, history_, smallest_, ret, res) ==
    [current |-> current_, history |-> history_, smallest_b_state |-> smallest_,
     ret |-> ret, res |-> res]

\* a snapshot that is inserted without evicting the oldest one
tt_snapshotNoEvict(cur, h, smallest) ==
    IF cur.inst_counter \div B_STATE_INTERVAL >= Cardinality(DOMAIN h)
       /\ cur.inst_counter % B_STATE_INTERVAL = 0
    THEN TTResult(cur, (cur.inst_counter \div B_STATE_INTERVAL :> cur) @@ h, smallest,
                  None, "Ok")
    ELSE TTResult(cur, h, smallest, None, "Ok")

\* the snapshot taken after an instruction that returned Ok(None)
tt_snapshot(cur, h, smallest) ==
    LET i == cur.inst_counter \div B_STATE_INTERVAL
        r == cur.inst_counter % B_STATE_INTERVAL
        Inserted(h1) ==
            IF Cardinality(DOMAIN h1) > B_STATE_LIMIT
            THEN IF smallest \in DOMAIN h1
                 THEN TTResult(cur, [k \in (DOMAIN h1) \ {smallest} |-> h1[k]],
                               smallest + 1, None, "Ok")
                 ELSE TTResult(cur, h1, smallest, None, "Abort")
            ELSE TTResult(cur, h1, smallest, None, "Ok")
    IN IF i >= Cardinality(DOMAIN h) /\ r = 0
       THEN Inserted((i :> cur) @@ h)
       ELSE TTResult(cur, h, smallest, None, "Ok")

\* the loop of step for amount >= 0
RECURSIVE tt_forward(_, _, _, _)
tt_forward(cur, h, smallest, amount) ==
    LET Saved(s) ==
            IF s.res = "Abort" THEN s
            ELSE tt_forward(s.current, s.history, s.smallest_b_state, amount - 1)
        Fetched(r) ==
            IF r.res = "Abort" THEN TTResult(cur, h, smallest, None, "Abort")
            ELSE IF r.res # "Ok" THEN TTResult(r.st, h, smallest, None, "Ok")
            ELSE IF r.ret # None THEN TTResult(r.st, h, smallest, r.ret, "Ok")
            ELSE Saved(tt_snapshot(r.st, h, smallest))
    IN IF amount = 0 THEN TTResult(cur, h, smallest, None, "Ok")
       ELSE Fetched(tt_fetch(cur))

\* a backward step that restores the snapshot and replays nothing
tt_replayNothing(cur, h, smallest, r) == TTResult(cur, h, smallest, None, "Ok")

\* the loop `for _ in 0..r` of step for amount < 0
RECURSIVE tt_replay(_, _, _, _)
tt_replay(cur, h, smallest, r) ==
    LET Fetched(e) ==
            IF e.res = "Abort" THEN TTResult(cur, h, smallest, None, "Abort")
            ELSE IF e.res # "Ok" THEN TTResult(e.st, h, smallest, None, "Ok")
            ELSE IF e.ret # None THEN TTResult(e.st, h, smallest, e.ret, "Ok")
            ELSE tt_replay(e.st, h, smallest, r - 1)
    IN IF r = 0 THEN TTResult(cur, h, smallest, None, "Ok")
       ELSE Fetched(tt_fetch(cur))

\* step for amount < 0: the closest snapshot at or before the target, then
\* the remaining instructions; the oldest snapshot when that one is gone
tt_backward(cur, h, smallest, amount) ==
    LET new_inst_count == cur.inst_counter + amount
        i == new_inst_count \div B_STATE_INTERVAL
        r == new_inst_count % B_STATE_INTERVAL
    IN IF new_inst_count < 0 THEN TTResult(cur, h, smallest, None, "Ok")
       ELSE IF i \in DOMAIN h THEN tt_replay(h[i], h, smallest, r)
       ELSE IF smallest \in DOMAIN h THEN TTResult(h[smallest], h, smallest, None, "Ok")
       ELSE TTResult(cur, h, smallest, None, "Abort")

\* TimeTravel::step
step(cur, h, smallest, amount) ==
    IF amount >= 0 THEN tt_forward(cur, h, smallest, amount)
    ELSE tt_backward(cur, h, smallest, amount)

\* the debugger calls step(amount).  last.a is amount, last.w is
\* current.inst_counter before the call
TTStep(amount) ==
    /\ last.res # "Abort"
    /\ inst_counter + amount <= MaxInsts
    /\ \E r \in {step(Emu, history, smallest_b_state, amount)} :
         /\ buffers' = r.current.mem.buffers
         /\ mmap_count' = r.current.mem.mmap_count
         /\ pc' = r.current.pc
         /\ x' = r.current.x
         /\ f' = r.current.f
         /\ file_descriptors' = r.current.file_descriptors
         /\ stdout' = r.current.stdout
         /\ inst_counter' = r.current.inst_counter
         /\ exit_code' = r.current.exit_code
         /\ profile_start_point' = r.current.profile_start_point
         /\ profile_end_point' = r.current.profile_end_point
         /\ running' = r.current.running
         /\ profiler' = r.current.profiler
         /\ history' = r.history
         /\ smallest_b_state' = r.smallest_b_state
         /\ last' = Call("tt_step", amount, inst_counter, 0, 0, r.res, r.ret, FALSE)
    /\ UNCHANGED nops

NextTT == \E amount \in (0 - MaxAmount)..MaxAmount : TTStep(amount)

SpecTT == Init /\ [][NextTT]_vars

\* ------------------------------------------------ what a region holds
\* the byte address a lies in a mapped region: below the length of its
\* buffer, or for the stack between the stack bottom and STACK_START - 1
Mapped(mem, a) ==
    /\ a >= 0 /\ a < U64
    /\ LET buf == mem.buffers[heap_index(a)]
       IN IF heap_index(a) = STACK_INDEX
          THEN a >= STACK_START - buf.len /\ a < STACK_START
          ELSE heap_addr(a) < buf.len

\* the byte a mapped address holds
ByteAt(mem, a) ==
    LET buf == mem.buffers[heap_index(a)]
    IN IF heap_index(a) = STACK_INDEX
       THEN BufByte(buf, a - (STACK_START - buf.len))
       ELSE BufByte(buf, heap_addr(a))

\* the mapped addresses that hold a non-zero byte
NonZeroAddrs(mem) ==
    UNION { { (IF r = STACK_INDEX THEN STACK_START - mem.buffers[r].len
               ELSE r * HEAP_SPAN) + k : k \in DOMAIN mem.buffers[r].data }
            : r \in 0..(NBUF - 1) }

\* every byte mapped in m1 outside [lo, hi) is mapped in m2 with the same value
SameOutside(m1, m2, lo, hi) ==
    /\ \A r \in 0..(NBUF - 1) : m2.buffers[r].len >= m1.buffers[r].len
    /\ \A b \in NonZeroAddrs(m1) \cup NonZeroAddrs(m2) :
          (Mapped(m1, b) /\ ~(b >= lo /\ b < hi)) =>
              (Mapped(m2, b) /\ ByteAt(m2, b) = ByteAt(m1, b))

\* s rounded up to a multiple of the page size
RoundUpPage(s) == ((s + PAGE_SIZE - 1) \div PAGE_SIZE) * PAGE_SIZE

\* ------------------------------------------------- interpreter properties
\* C1: after every step that executes an instruction, whatever the
\* instruction and its destination register, x[0] is 0.
C1_X0ZeroAfterExecutedStep ==
    [][(last'.op = "step" /\ last'.res = "Ok") => x'[0] = 0]_vars

\* a step has executed an instruction that wrote a non-zero value to x[0]
C1_Witness ==
    /\ last.op = "step" /\ last.res = "Ok" /\ last.a = 1
    /\ inst_counter >= 1
    /\ x[0] = 0

\* C2: a step that executes an instruction adds exactly 1 to inst_counter;
\* a step after the exit code is set and a step that returns a fault leave
\* inst_counter unchanged.
C2_InstCounterCountsExecutedSteps ==
    [][last'.op = "step" =>
         /\ (last'.res = "Ok" /\ last'.v # "Exited") => inst_counter' = inst_counter + 1
         /\ (last'.res = "Segfault" \/ last'.v = "Exited") => inst_counter' = inst_counter]_vars

\* an ecall has executed as the second instruction of the run
C2_Witness ==
    /\ last.op = "step" /\ last.res = "Ok" /\ last.v = "Ecall"
    /\ inst_counter = 2

\* C3: the ecall that executes exit or exit_group with a0 = c returns
\* Some(c) and sets the exit code; every later step returns Some(c) and
\* leaves pc, the registers, memory, the descriptor table, stdout and
\* inst_counter unchanged.
C3_ExitIsAbsorbing ==
    [][last'.op = "step" =>
         /\ (/\ exit_code = None
             /\ last'.v = "Ecall" /\ last'.res = "Ok"
             /\ x[A7] \in {Syscall.Exit, Syscall.ExitGroup})
               => (exit_code' = x[A0] /\ last'.ret = x[A0])
         /\ exit_code # None
               => (/\ last'.res = "Ok" /\ last'.ret = exit_code
                   /\ UNCHANGED <<pc, x, f, buffers, mmap_count, file_descriptors,
                                  stdout, inst_counter, exit_code>>)]_vars

\* a step has been taken after exit(7)
C3_Witness ==
    /\ last.op = "step" /\ last.v = "Exited"
    /\ exit_code = 7 /\ last.ret = 7

\* ------------------------------------------------------ Memory properties
\* C4: a load whose range [addr, addr + w) has a byte outside every mapped
\* region returns Segfault; a load never reads outside a mapped buffer and
\* never changes memory.
C4_LoadOutsideMappedFaults ==
    [][last'.op = "load" =>
         /\ (\E i \in 0..(last'.w - 1) : ~Mapped(Mem, last'.a + i))
               => last'.res = "Segfault"
         /\ ~last'.oob
         /\ buffers' = buffers]_vars

\* C5: after a successful store of width w of value v at A, load::<u8>(A + i)
\* returns byte i of v for every i < w, and no byte outside [A, A + w)
\* changed.
C5_StoreWritesLittleEndianBytes ==
    [][(last'.op = "store" /\ last'.res = "Ok") =>
         /\ \A i \in 0..(last'.w - 1) :
               /\ last'.a + i < U64
               /\ LET l == load(Mem', last'.a + i, 1, 0)
                  IN l.ok /\ ~l.oob /\ l.val = ToBytes(last'.v, last'.w)[i]
         /\ SameOutside(Mem, Mem', last'.a, last'.a + last'.w)]_vars

C7_AccessFarBelowStackFaults ==
    [][(/\ last'.op \in {"store", "load"}
        /\ heap_index(last'.a) = STACK_INDEX
        /\ StackEnd - last'.a > PAGE_SIZE) =>
         (/\ last'.res = "Segfault"
          /\ buffers' = buffers /\ mmap_count' = mmap_count)]_vars

\* a store more than one page below the stack bottom has just been refused
C7_Witness ==
    /\ last.op = "store" /\ last.res = "Segfault"
    /\ heap_index(last.a) = STACK_INDEX
    /\ StackEnd - last.a > PAGE_SIZE
    /\ StackLen = last.slen

\* C8: a brk call never lowers the program break (what brk(0) returns),
\* never unmaps a mapped heap byte, and brk(0) leaves the break unchanged.
C8_BrkNeverShrinks ==
    [][last'.op = "brk" =>
         /\ brk(Mem', 0).ret >= brk(Mem, 0).ret
         /\ buffers'[1].len >= buffers[1].len
         /\ (last'.a = 0 => (buffers' = buffers /\ last'.ret = brk(Mem, 0).ret))]_vars

\* C9: a successful mmap without a fixed address returns a region that
\* overlaps nothing mapped before and leaves the extent and contents of
\* every earlier region unchanged.
C9_NonFixedMmapIsFresh ==
    [][(last'.op = "mmap" /\ last'.a = 0 /\ last'.res = "Ok" /\ last'.ret # U64 - 1) =>
         /\ buffers[heap_index(last'.ret)].len = 0
         /\ \A r \in 0..(NBUF - 1) :
               r # heap_index(last'.ret) => buffers'[r] = buffers[r]]_vars

\* C10: mmap at a non-zero hint with size s makes every byte of
\* [hint, hint + s rounded up to a page) readable as zero and changes no
\* byte outside that range.
C10_FixedMmapZeroesRoundedRange ==
    [][(last'.op = "mmap" /\ last'.a # 0 /\ last'.res = "Ok" /\ last'.ret # U64 - 1) =>
         /\ \A b \in last'.a..(last'.a + RoundUpPage(last'.v) - 1) :
               /\ b < U64
               /\ LET l == load(Mem', b, 1, 0) IN l.ok /\ ~l.oob /\ l.val = 0
         /\ SameOutside(Mem, Mem', last'.a, last'.a + RoundUpPage(last'.v))]_vars

\* ----------------------------------------------------- syscall properties
\* the bytes guest memory holds at [addr, addr + len)
GuestBytes(mem, addr, len) == [i \in 1..len |-> ByteAt(mem, (addr + i - 1) % U64)]

\* the bytes of the n buffers of the iovec array at iov, in order
RECURSIVE GuestVecs(_, _, _)
GuestVecs(mem, iov, n) ==
    IF n = 0 THEN << >>
    ELSE GuestVecs(mem, iov, n - 1)
         \o GuestBytes(mem, load(mem, (iov + 16 * (n - 1)) % U64, 8, 0).val,
                       load(mem, (iov + 16 * (n - 1) + 8) % U64, 8, 0).val)

\* the NUL-terminated string at addr, cut at n bytes
RECURSIVE GuestCStr(_, _, _)
GuestCStr(mem, addr, n) ==
    IF n = 0 \/ ~Mapped(mem, addr) \/ ByteAt(mem, addr) = 0 THEN << >>
    ELSE <<ByteAt(mem, addr)>> \o GuestCStr(mem, (addr + 1) % U64, n - 1)

\* the descriptor and the image of a bundled library name, << >> for any
\* other name
BundledLib(name) ==
    IF name = LIBC_NAME THEN <<LIBC_FILE_DESCRIPTOR, LIBC_DATA>>
    ELSE IF name = LIBCPP_NAME THEN <<LIBCPP_FILE_DESCRIPTOR, LIBCPP_DATA>>
    ELSE IF name = LIBM_NAME THEN <<LIBM_FILE_DESCRIPTOR, LIBM_DATA>>
    ELSE IF name = LIBGCCS_NAME THEN <<LIBGCCS_FILE_DESCRIPTOR, LIBGCCS_DATA>>
    ELSE << >>

\* C11: an ecall with a supported syscall number in a7 completes, whatever
\* its arguments: it returns neither a fault nor a panic.
C11_SyscallNeverFaults ==
    [][(last'.op = "ecall" /\ last'.v[A7] \in SyscallIds) => last'.res = "Ok"]_vars

\* C12: a write or writev to fd 1 or 2 that completes appends to stdout
\* exactly the bytes of the guest buffer (of the buffers of the iovec
\* array, in order), zero bytes included, and sets a0 to their number.
C12_WriteAppendsGuestBytes ==
    [][(/\ last'.op = "ecall" /\ last'.res = "Ok"
        /\ last'.v[A7] \in {Syscall.Write, Syscall.Writev}
        /\ last'.a \in {1, 2}) =>
         LET bytes == IF last'.v[A7] = Syscall.Write
                      THEN GuestBytes(Mem, last'.v[A1], last'.v[A2])
                      ELSE GuestVecs(Mem, last'.v[A1], last'.v[A2])
         IN /\ stdout' = stdout \o bytes
            /\ x'[A0] = Len(bytes)]_vars

\* C13: a read on an open descriptor whose buffer is mapped completes,
\* copies the next min(count, remaining) bytes from the descriptor's offset
\* to the buffer, returns their number (0 at or past the end of the data)
\* and advances the offset by it.
C13_ReadAdvancesOffset ==
    [][(/\ last'.op = "ecall"
        /\ last'.v[A7] = Syscall.Read
        /\ last'.a \in DOMAIN file_descriptors
        /\ \A i \in 0..(last'.v[A2] - 1) : Mapped(Mem, last'.v[A1] + i)) =>
         LET d == file_descriptors[last'.a]
             remaining == IF d.offset >= Len(d.data) THEN 0 ELSE Len(d.data) - d.offset
             n == Min(last'.v[A2], remaining)
         IN /\ last'.res = "Ok"
            /\ x'[A0] = n
            /\ last'.a \in DOMAIN file_descriptors'
            /\ file_descriptors'[last'.a].offset = d.offset + n
            /\ GuestBytes(Mem', last'.v[A1], n) = SubSeq(d.data, d.offset + 1, d.offset + n)]_vars

\* C14: an openat that completes installs the fixed descriptor of a bundled
\* library with offset 0 and returns it, and for any other name returns -1
\* and leaves the table as it is; close returns 0 and removes a descriptor
\* that is present and returns -1 otherwise; read, lseek and a file-backed
\* mmap on a descriptor that is not present return -1.
C14_DescriptorLifecycle ==
    [][(last'.op = "ecall" /\ last'.res = "Ok") =>
         /\ last'.v[A7] = Syscall.Openat =>
               LET lib == BundledLib(GuestCStr(Mem, last'.v[A1], 512))
               IN IF lib # << >>
                  THEN /\ x'[A0] = lib[1]
                       /\ file_descriptors' =
                             FdInsert(file_descriptors, lib[1], FileDescriptor(0, lib[2]))
                  ELSE /\ x'[A0] = MINUS1
                       /\ file_descriptors' = file_descriptors
         /\ last'.v[A7] = Syscall.Close =>
               IF last'.a \in DOMAIN file_descriptors
               THEN /\ x'[A0] = 0
                    /\ DOMAIN file_descriptors' = (DOMAIN file_descriptors) \ {last'.a}
                    /\ \A fd \in DOMAIN file_descriptors' :
                          file_descriptors'[fd] = file_descriptors[fd]
               ELSE /\ x'[A0] = MINUS1
                    /\ file_descriptors' = file_descriptors
         /\ (/\ last'.v[A7] \in {Syscall.Read, Syscall.Lseek}
             /\ last'.a \notin DOMAIN file_descriptors) =>
               (x'[A0] = MINUS1 /\ file_descriptors' = file_descriptors)
         /\ (/\ last'.v[A7] = Syscall.Mmap
             /\ last'.v[A4] # MINUS1
             /\ last'.v[A4] \notin DOMAIN file_descriptors) =>
               (x'[A0] = MINUS1 /\ file_descriptors' = file_descriptors)]_vars

\* a close has just returned 0 for the libc descriptor, which an earlier
\* openat installed and which is no longer in the table
C14_Witness ==
    /\ last.op = "ecall" /\ last.res = "Ok"
    /\ last.v[A7] = Syscall.Close
    /\ last.a = LIBC_FILE_DESCRIPTOR
    /\ x[A0] = 0
    /\ LIBC_FILE_DESCRIPTOR \notin DOMAIN file_descriptors

\* C15: decode returns for every word, without a panic; the length is 4
\* when the low two bits of the word are 11 and 2 otherwise; and an
\* unknown-instruction variant carries the raw encoding (the low half of
\* the word for a 2-byte one).
C15_DecodeIsTotal ==
    [][(last'.op \in {"decode", "step"} /\ last'.v # "Exited") =>
         /\ last'.op = "step"
         /\ last'.w.incr = (IF Field(last'.w.word, 0, 2) = 3 THEN 4 ELSE 2)
         /\ last'.w.inst.op = "Error" =>
              last'.w.inst.raw = (IF last'.w.incr = 4 THEN last'.w.word
                                  ELSE Word(0, last'.w.word[2]))]_vars

\* the words the ISA makes fence, ebreak or c.ebreak, and the words decode
\* does not recognise
IsFenceWord(w) == Field(w, 0, 7) = 15
IsEbreakWord(w) == w = Word(16, 115) \/ (Field(w, 0, 2) # 3 /\ w[2] = 36866)

\* C16: a step on fence, ebreak, c.ebreak or an unrecognised word returns
\* Ok, dispatches no syscall, and changes only pc (by the length) and
\* inst_counter (by one).
C16_NoOpsOnlyAdvance ==
    [][(/\ last'.op = "step"
        /\ last'.v # "Exited"
        /\ \/ IsFenceWord(last'.w.word)
           \/ IsEbreakWord(last'.w.word)
           \/ last'.w.inst.op = "Error") =>
         /\ last'.res = "Ok"
         /\ last'.ret = None
         /\ pc' = WAdd(pc, last'.w.incr)
         /\ inst_counter' = inst_counter + 1
         /\ x' = x /\ f' = f
         /\ buffers' = buffers /\ mmap_count' = mmap_count
         /\ file_descriptors' = file_descriptors
         /\ stdout' = stdout
         /\ exit_code' = exit_code]_vars

\* the immediate the ISA gives a JALR: bits 31..20 of a 32-bit jalr,
\* sign-extended, and 0 for c.jr and c.jalr
JalrImmediate(w) == IF Field(w, 0, 2) = 3 THEN Signed(Field(w, 20, 12), 12) ELSE 0

\* C17: a JALR fetched at pc continues at (rs1 + sign_extend(imm)) & ~1,
\* with rs1 read before the instruction, and leaves pc + length in rd.
C17_JalrTargetAndLink ==
    [][(/\ last'.op = "step"
        /\ last'.v = "Jump"
        /\ last'.w.inst.op = "Jalr"
        /\ last'.res = "Ok") =>
         /\ pc' = (LET t == WAdd(x[last'.w.inst.rs1],
                                 FromSigned(JalrImmediate(last'.w.word)))
                   IN t - (t % 2))
         /\ last'.w.inst.rd # 0 => x'[last'.w.inst.rd] = WAdd(pc, last'.w.incr)]_vars

\* the division and remainder instructions, the width of their operands,
\* and whether they read them as signed
DivOps == {"Div", "Divu", "Divw", "Divuw", "Remu", "Remw", "Remuw"}
DivBits(op) == IF op \in {"Divw", "Divuw", "Remw", "Remuw"} THEN W32 ELSE XLEN
DivSigned(op) == op \in {"Div", "Divw", "Remw"}
DivIsRem(op) == op \in {"Remu", "Remw", "Remuw"}

\* the register value the RISC-V specification gives a division by zero
\* (quotient all ones, remainder the dividend) and a signed overflow
\* (quotient the most negative value, remainder 0)
DivSpecial(op, a, b) ==
    IF Trunc(b, DivBits(op)) = 0
    THEN IF DivIsRem(op) THEN SExt(a, DivBits(op)) ELSE U64 - 1
    ELSE IF DivIsRem(op) THEN 0 ELSE FromSigned(MinSigned(DivBits(op)))

\* the operands are a zero divisor, or the most negative value and -1
IsDivSpecial(op, a, b) ==
    \/ Trunc(b, DivBits(op)) = 0
    \/ /\ DivSigned(op)
       /\ Signed(a, DivBits(op)) = MinSigned(DivBits(op))
       /\ Signed(b, DivBits(op)) = 0 - 1

\* C18: a division or remainder instruction never aborts the emulator, and
\* with a zero divisor or a signed overflow rd receives the value the
\* RISC-V specification defines.
C18_DivisionNeverAborts ==
    [][(/\ last'.op = "step"
        /\ last'.v = "Other"
        /\ last'.w.inst.op \in DivOps) =>
         /\ last'.res = "Ok"
         /\ (/\ IsDivSpecial(last'.w.inst.op, x[last'.w.inst.rs1], x[last'.w.inst.rs2])
             /\ last'.w.inst.rd # 0) =>
              x'[last'.w.inst.rd] =
                 DivSpecial(last'.w.inst.op, x[last'.w.inst.rs1], x[last'.w.inst.rs2])]_vars

\* the word variants
WordOps ==
    {"Addw", "Addiw", "Subw", "Sllw", "Slliw", "Srlw", "Srliw", "Sraw", "Sraiw",
     "Divw", "Divuw", "Remw", "Remuw"}

\* C19: the value a word-variant instruction writes to rd is a 32-bit value
\* sign-extended to the register width: the bits above bit 31 equal bit 31.
C19_WordResultsSignExtended ==
    [][(/\ last'.op = "step"
        /\ last'.v = "Other"
        /\ last'.w.inst.op \in WordOps
        /\ last'.res = "Ok"
        /\ last'.w.inst.rd # 0) =>
         x'[last'.w.inst.rd] = SExt(x'[last'.w.inst.rd], W32)]_vars

\* C20: profile_end is latched from ra on the step that first finds pc at
\* profile_start; a later step at profile_start with the window open leaves
\* it alone; and the window closes on the step that finds pc at the latched
\* value, not before.
C20_ProfileEndLatchedOnce ==
    [][(/\ last'.op = "step"
        /\ last'.v # "Exited"
        /\ last'.res = "Ok"
        /\ profile_start_point # 0) =>
         /\ (pc = profile_start_point /\ ~running) =>
               (profile_end_point' = x[RA] /\ running')
         /\ (pc = profile_start_point /\ running) =>
               (profile_end_point' = profile_end_point /\ running')
         /\ (pc # profile_start_point /\ running) =>
               (running' <=> pc # profile_end_point)]_vars

\* C21: no profile label is ever set in this specification, so the profiler
\* never runs and counts nothing: running is false and cycle_count, the cache
\* hit and miss counters and the branch predicted and mispredicted counters
\* are 0 in every state, whatever addresses pc takes.
C21_NoLabelNoCounting ==
    /\ ~running
    /\ profiler.cycle_count = 0
    /\ profiler.cache_hit_count = 0
    /\ profiler.cache_miss_count = 0
    /\ profiler.predicted_branch_count = 0
    /\ profiler.mispredicted_branch_count = 0

\* the u64 at a guest address, and whether the bytes from a are those of s
WordAt(a) == load(Mem, a, 8, 0)
BytesAt(a, s) == \A i \in 1..Len(s) : Mapped(Mem, a + i - 1) /\ ByteAt(Mem, a + i - 1) = s[i]

\* C22: right after construction sp is a multiple of 16 and points at argc:
\* the word at sp is 1, the next is argv[0] and points at "/prog", then the
\* NULL that ends argv, the NULL envp, and the auxiliary vector, a run of
\* pairs that ends with AT_NULL.
C22_InitialStackFrame ==
    last.op = "new" =>
        /\ x[SP] % 16 = 0
        /\ WordAt(x[SP]).ok /\ WordAt(x[SP]).val = 1
        /\ BytesAt(WordAt(x[SP] + 8).val, PROG_NAME)
        /\ WordAt(x[SP] + 16).val = 0
        /\ WordAt(x[SP] + 24).val = 0
        /\ \E n \in 1..Len(AuxValues) :
              /\ WordAt(x[SP] + 32 + 16 * (n - 1)).val = 0
              /\ \A j \in 1..(n - 1) : WordAt(x[SP] + 32 + 16 * (j - 1)).val # 0

\* the atomic memory operations and sc, the width of their access and
\* what an AMO combines: the operand and the old value of the memory word
AmoOps == {"Amoswapw", "Amoswapd", "Amoaddw", "Amoaddd", "Amoorw", "Amomaxuw", "Amomaxud"}
ScOps == {"Scw", "Scd"}
AtomicWidth(op) == IF op \in {"Amoswapd", "Amoaddd", "Amomaxud", "Scd"} THEN 8 ELSE 4
AmoResult(op, operand, old, w) ==
    IF op \in {"Amoswapw", "Amoswapd"} THEN operand
    ELSE IF op \in {"Amoaddw", "Amoaddd"} THEN (operand + old) % Pow2(w * ByteBits)
    ELSE IF op = "Amoorw" THEN BitOr(operand, old)
    ELSE Max(operand, old)

\* C23: an AMO or sc that completes on a readable word works from the
\* registers as they were before the instruction: the word at the old x[rs1]
\* becomes the old x[rs2] (sc) or its combination with the old word (AMO),
\* and rd, unless x0, becomes the old word (AMO, sign-extended from 32 bits
\* for .w) or 0 (sc); this also when rd is rs1 or rs2.
C23_AtomicsUseOldRegisters ==
    [][(/\ last'.op = "step"
        /\ last'.v = "Other"
        /\ last'.w.inst.op \in AmoOps \cup ScOps
        /\ last'.res = "Ok"
        /\ load(Mem, x[last'.w.inst.rs1], AtomicWidth(last'.w.inst.op), 0).ok
        /\ ~load(Mem, x[last'.w.inst.rs1], AtomicWidth(last'.w.inst.op), 0).oob) =>
         LET Holds(op, rd, w, addr, operand, old) ==
                 /\ load(Mem', addr, w, 0).val =
                        IF op \in ScOps THEN operand ELSE AmoResult(op, operand, old, w)
                 /\ rd # 0 =>
                        x'[rd] = IF op \in ScOps THEN 0
                                 ELSE IF w = 4 THEN SExt(old, W32) ELSE old
             OfWidth(i, w) ==
                 Holds(i.op, i.rd, w, x[i.rs1], Trunc(x[i.rs2], w * ByteBits),
                       load(Mem, x[i.rs1], w, 0).val)
         IN OfWidth(last'.w.inst, AtomicWidth(last'.w.inst.op))]_vars

\* C24: a step that returns Segfault leaves pc, the integer and the float
\* registers, the memory, the descriptor table, stdout and inst_counter
\* exactly as they were before the step.
C24_SegfaultHasNoEffect ==
    [][(last'.op = "step" /\ last'.res = "Segfault") =>
         /\ pc' = pc
         /\ x' = x
         /\ f' = f
         /\ buffers' = buffers
         /\ mmap_count' = mmap_count
         /\ file_descriptors' = file_descriptors
         /\ stdout' = stdout
         /\ inst_counter' = inst_counter]_vars

\* C25: after a successful store of width w at A, also one at the lowest
\* mapped stack address or one that grew the stack, a load of width w at A
\* succeeds and returns the value stored.
C25_LoadReturnsStoredValue ==
    [][(last'.op = "store" /\ last'.res = "Ok") =>
         \A junk \in {0, BYTE - 1} :
             LET Same(l, bytes) == l.ok /\ l.val = FromBytes(bytes, last'.w)
             IN Same(load(Mem', last'.a, last'.w, junk), ToBytes(last'.v, last'.w))]_vars

\* C26: a store that grows the stack keeps what the stack held: every stack
\* address mapped before the store, outside the bytes just stored, is still
\* mapped and holds the byte it held before.
C26_StackGrowthKeepsContents ==
    [][(/\ last'.op = "store"
        /\ last'.res = "Ok"
        /\ heap_index(last'.a) = STACK_INDEX
        /\ StackLen' > StackLen) =>
         \A b \in StackEnd..(STACK_START - 1) :
             ~(b >= last'.a /\ b < last'.a + last'.w) =>
                 (Mapped(Mem', b) /\ ByteAt(Mem', b) = ByteAt(Mem, b))]_vars

\* a second growth of the stack, which held the frame of init_auxv_stack
\* and the bytes of an earlier store
C26_Witness ==
    /\ last.op = "store"
    /\ last.res = "Ok"
    /\ heap_index(last.a) = STACK_INDEX
    /\ last.slen > PAGE_SIZE
    /\ StackLen > last.slen
    /\ ByteAt(Mem, argc_addr) = 1

\* C27: every byte that becomes mapped by a brk, by an mmap without a fixed
\* address or by a store that grows the stack holds 0, apart from the bytes
\* that store wrote.
C27_NewMemoryIsZero ==
    [][(/\ last'.res = "Ok"
        /\ \/ last'.op = "brk"
           \/ last'.op = "mmap" /\ last'.a = 0
           \/ last'.op = "store" /\ heap_index(last'.a) = STACK_INDEX) =>
         \A b \in NonZeroAddrs(Mem') :
             Mapped(Mem, b)
             \/ (last'.op = "store" /\ b >= last'.a /\ b < last'.a + last'.w)]_vars

\* the outcome the branch cache holds for a key: << >> when the key is
\* absent, else <<taken>>
Recorded(c, key) ==
    LET At(i) == IF i < 0 THEN << >> ELSE <<c.data[i][2]>>
    IN At(CacheFind(c, key))

\* C28: a conditional branch at pc that the profiler counts is predicted as
\* the cache recorded it for pc, not taken if pc is absent.  A prediction
\* that differs from the outcome adds 1 to the mispredicted branches and 4
\* cycles on top of the stall and the tick, else 1 is added to the predicted
\* branches; afterwards the cache holds the outcome for pc.
C28_BranchPredictionAccounting ==
    [][(/\ last'.op = "step"
        /\ last'.v = "Branch"
        /\ last'.res = "Ok"
        /\ is_counted(running', pc)) =>
         LET Accounted(inst, taken, mismatch, base) ==
                 /\ profiler'.mispredicted_branch_count =
                        profiler.mispredicted_branch_count + (IF mismatch THEN 1 ELSE 0)
                 /\ profiler'.predicted_branch_count =
                        profiler.predicted_branch_count + (IF mismatch THEN 0 ELSE 1)
                 /\ profiler'.cycle_count =
                        base + (IF mismatch THEN 4 ELSE 0)
                             + (IF is_counted(running', pc') THEN 1 ELSE 0)
                 /\ Recorded(profiler'.branch_predictor, pc) = <<taken>>
             Of(inst, taken) ==
                 Accounted(inst, taken,
                           taken # (Recorded(profiler.branch_predictor, pc) = <<TRUE>>),
                           pipeline_stall_xx(profiler, TRUE, inst.rs1, inst.rs2).cycle_count)
         IN Of(last'.w.inst, BranchTaken(x, last'.w.inst))]_vars

\* the emulator after k instructions of the guest program
EmulatorNewStatic == EmulatorNew(FALSE)
EmulatorNewDynamic == EmulatorNew(TRUE)
StateAfter(dynamic, k) ==
    tt_replay(IF dynamic THEN EmulatorNewDynamic ELSE EmulatorNewStatic, << >>, 0, k).current
\* the run is that of the dynamic executable: its code lies in buffer 2
IsDynamicRun == heap_index(pc) = 2

C30_HistoryIsAWindow ==
    /\ Cardinality(DOMAIN history) <= B_STATE_LIMIT
    /\ DOMAIN history =
           smallest_b_state..(smallest_b_state + Cardinality(DOMAIN history) - 1)
    /\ \A k \in DOMAIN history : history[k].inst_counter = k * B_STATE_INTERVAL
    /\ last.res # "Abort"

\* a forward step after two evictions, with a full history
C30_Witness ==
    /\ last.op = "tt_step"
    /\ last.a > 0
    /\ smallest_b_state = 2
    /\ Cardinality(DOMAIN history) = B_STATE_LIMIT
    /\ inst_counter = (B_STATE_LIMIT + 1) * B_STATE_INTERVAL

====
